---- MODULE Spec2Model ----
(***************************************************************************)
(* Model of the trust-boundary layer of the Yandex Mail MCP server         *)
(* (src/server.py): query translation, recipient validation, allowlist     *)
(* policy, the send rate limiter and the send_email tool.                  *)
(*                                                                         *)
(* Python strings are modelled as sequences of one-character strings, so   *)
(* that splitting, stripping, case folding and matching are computed.      *)
(***************************************************************************)
EXTENDS FiniteSets, Integers, Sequences, TLC

VARIABLES
    \* build_imap_search_criteria
    query,      \* the query argument
    criteria,   \* the list returned
    q_state,    \* "idle" before a translation, "done" after one
    \* configuration read from the environment at import (lines 47-59)
    EMAIL,
    PASSWORD,
    SEND_RATE_LIMIT_PER_MINUTE,
    ALLOWED_RECIPIENTS,
    ALLOWED_RECIPIENT_DOMAINS,
    \* process-wide state
    _send_timestamps,   \* line 68: the deque of admitted send times
    clock,              \* what time.time() returns
    \* the send_email call in progress (one at a time) and its helpers
    pc,             \* the step the call is at; "idle", "returned", "raised"
    to,
    cc,
    bcc,
    subject,
    body_len,       \* len(body or "")
    recipients,     \* the local variable recipients (line 609)
    error,          \* the exception the call raised, NoError if none
    \* history of the call in progress
    policy_arg,     \* what _enforce_recipient_allowlist was called with
    smtp_open,      \* an SMTP connection is open now
    smtp_opened,    \* an SMTP connection was opened during this call
    transmitted,    \* the recipient list handed to send_message
    window_before,  \* _send_timestamps when the call began
    now_at_call,    \* the now the rate limiter used in this call
    calls,          \* number of calls begun
    admit_log,      \* _enforce_send_rate_limit calls: <<time, admitted>>
    \* concurrent callers inside _enforce_send_rate_limit
    rl_pc,
    rl_now,
    \* _truncate called on its own
    text,           \* the text argument
    max_chars,      \* the max_chars argument
    truncate_ret,   \* what _truncate(text, max_chars) returned
    truncate_again, \* what _truncate returned when applied to that result
    \* configuration of the reading tools (lines 51, 54, 55)
    MAX_READ_BODY_CHARS,
    ENABLE_INJECTION_LOGGING,
    INJECTION_SIGNALS_MAX,
    \* _detect_prompt_injection_signals
    texts,          \* the *texts arguments
    signals,        \* the list returned
    \* the IMAP tool call in progress (one at a time, sharing pc and error)
    op,             \* the tool called
    email_id,       \* its email_id argument, a message number
    search_limit,   \* the limit argument of search_emails
    filename,       \* the filename argument of download_attachment
    \* the IMAP server
    stored,         \* the message the server returns for a fetch of email_id
    search_hits,    \* the message numbers the server returns for the search
    mailbox,        \* source folder, its \Deleted flags, destination folder
    mailbox_before, \* mailbox when the call began
    folder_data,    \* the lines the server answers to LIST
    disk,           \* the files written by download_attachment
    imap_open,      \* an IMAP connection is open now
    imap_opened,    \* number of IMAP connections opened during this call
    \* local variables of search_emails
    ids,
    ids_pos,        \* how many of ids the for loop of line 367 has taken
    emails,
    \* local variables of read_email
    fetched_msg,    \* msg
    body_text,
    body_html,
    attachments,
    extracted_urls,
    truncated,
    \* what the tool returned, and what it wrote to the log
    ret,
    log

queryVars == <<query, criteria, q_state>>

configVars == <<EMAIL, PASSWORD, SEND_RATE_LIMIT_PER_MINUTE,
                ALLOWED_RECIPIENTS, ALLOWED_RECIPIENT_DOMAINS>>

inputVars == <<to, cc, bcc, subject, body_len>>

callVars == <<pc, recipients, error, policy_arg, smtp_open, smtp_opened,
              transmitted, window_before, now_at_call, calls>>

raceVars == <<rl_pc, rl_now>>

truncVars == <<text, max_chars, truncate_ret, truncate_again>>

readConfigVars == <<MAX_READ_BODY_CHARS, ENABLE_INJECTION_LOGGING, INJECTION_SIGNALS_MAX>>

detectVars == <<texts, signals>>

imapArgs == <<op, email_id, search_limit, filename, stored, search_hits, mailbox_before,
              folder_data>>

imapState == <<mailbox, imap_open, imap_opened>>

searchLocals == <<ids, ids_pos, emails>>

readLocals == <<fetched_msg, body_text, body_html, attachments, extracted_urls, truncated>>

outVars == <<ret, log, disk>>

imapVars == <<imapArgs, imapState, searchLocals, readLocals, outVars>>

toolVars == <<truncVars, readConfigVars, detectVars, imapVars>>

vars == <<queryVars, configVars, _send_timestamps, clock, inputVars,
          callVars, admit_log, raceVars, toolVars>>

---------------------------------------------------------------------------
(* Python str helpers                                                      *)

LowerLetters ==
    <<"a","b","c","d","e","f","g","h","i","j","k","l","m",
      "n","o","p","q","r","s","t","u","v","w","x","y","z">>

UpperLetters ==
    <<"A","B","C","D","E","F","G","H","I","J","K","L","M",
      "N","O","P","Q","R","S","T","U","V","W","X","Y","Z">>

\* str.upper() on one character
UpperChar(c) ==
    IF \E i \in 1..26 : LowerLetters[i] = c
    THEN UpperLetters[CHOOSE i \in 1..26 : LowerLetters[i] = c]
    ELSE c

\* str.lower() on one character
LowerChar(c) ==
    IF \E i \in 1..26 : UpperLetters[i] = c
    THEN LowerLetters[CHOOSE i \in 1..26 : UpperLetters[i] = c]
    ELSE c

\* str.upper()
str_upper(s) == [i \in 1..Len(s) |-> UpperChar(s[i])]

\* str.lower()
str_lower(s) == [i \in 1..Len(s) |-> LowerChar(s[i])]

\* the characters str.split() and str.strip() treat as whitespace, and \s
Whitespace == {" ", "\t", "\n", "\r", "\f"}

RECURSIVE LStrip(_, _)
LStrip(s, chars) ==
    IF Len(s) > 0 /\ s[1] \in chars THEN LStrip(Tail(s), chars) ELSE s

RECURSIVE RStrip(_, _)
RStrip(s, chars) ==
    IF Len(s) > 0 /\ s[Len(s)] \in chars
    THEN RStrip(SubSeq(s, 1, Len(s) - 1), chars)
    ELSE s

\* str.strip(chars)
str_strip(s, chars) == RStrip(LStrip(s, chars), chars)

\* str.split(): cut at runs of whitespace, no empty pieces
RECURSIVE SplitFrom(_, _, _, _)
SplitFrom(s, i, cur, acc) ==
    IF i > Len(s)
    THEN IF cur = <<>> THEN acc ELSE Append(acc, cur)
    ELSE IF s[i] \in Whitespace
         THEN SplitFrom(s, i + 1, <<>>, IF cur = <<>> THEN acc ELSE Append(acc, cur))
         ELSE SplitFrom(s, i + 1, Append(cur, s[i]), acc)

str_split(s) == SplitFrom(s, 1, <<>>, <<>>)

\* sep.join(items)
RECURSIVE JoinWith(_, _)
JoinWith(items, sep) ==
    IF Len(items) = 0 THEN <<>>
    ELSE IF Len(items) = 1 THEN items[1]
    ELSE items[1] \o sep \o JoinWith(Tail(items), sep)

\* the elements of a list
Range(seq) == { seq[i] : i \in 1..Len(seq) }

\* a local variable: x is evaluated once and F is applied to its value
With(x, F(_)) == CHOOSE r \in { F(v) : v \in {x} } : TRUE

---------------------------------------------------------------------------
(* build_imap_search_criteria                                              *)

S_ALL == <<"A","L","L">>

keywords_needing_quotes ==
    { <<"F","R","O","M">>, <<"T","O">>, <<"C","C">>, <<"B","C","C">>,
      <<"S","U","B","J","E","C","T">>, <<"B","O","D","Y">>, <<"T","E","X","T">> }

QuoteChars == {"\"", "'"}

\* f'"{value}"'
DoubleQuoted(value) == <<"\"">> \o value \o <<"\"">>

\* the operand is quoted as it stands, without value.strip('"\'')
RECURSIVE CriteriaLoop_no_strip(_, _, _)
CriteriaLoop_no_strip(tokens, i, result) ==
    IF i > Len(tokens)
    THEN result
    ELSE IF str_upper(tokens[i]) \in keywords_needing_quotes /\ i + 1 <= Len(tokens)
         THEN CriteriaLoop_no_strip(tokens, i + 2,
                  result \o << str_upper(tokens[i]), DoubleQuoted(tokens[i + 1]) >>)
         ELSE CriteriaLoop_no_strip(tokens, i + 1, Append(result, tokens[i]))

\* the while loop over tokens
RECURSIVE CriteriaLoop(_, _, _)
CriteriaLoop(tokens, i, result) ==
    IF i > Len(tokens)
    THEN result
    ELSE IF str_upper(tokens[i]) \in keywords_needing_quotes /\ i + 1 <= Len(tokens)
         THEN CriteriaLoop(tokens, i + 2,
                  result \o << str_upper(tokens[i]),
                               DoubleQuoted(str_strip(tokens[i + 1], QuoteChars)) >>)
         ELSE CriteriaLoop(tokens, i + 1, Append(result, tokens[i]))

build_imap_search_criteria(q) ==
    IF Len(q) = 0 \/ str_upper(q) = S_ALL
    THEN <<S_ALL>>
    ELSE CriteriaLoop(str_split(q), 1, <<>>)

---------------------------------------------------------------------------
(* email.utils.getaddresses as called on line 92, for field values made of *)
(* atom characters, "@", ".", "," and blanks (no comments, quoted strings, *)
(* groups, route addresses or domain literals)                             *)

SPECIALS == {"(", ")", "<", ">", "@", ",", ":", ";", ".", "\"", "[", "]"}
LWS == {" ", "\t"}
ATOMENDS == SPECIALS \cup LWS \cup {"\r", "\n"}
PHRASEENDS == ATOMENDS \ {"."}

\* concatenation of a list of strings: ''.join(parts)
RECURSIVE Concat(_)
Concat(parts) ==
    IF Len(parts) = 0 THEN <<>> ELSE parts[1] \o Concat(Tail(parts))

\* skip white space; returns the new position and the blanks skipped
RECURSIVE gotonext(_, _, _)
gotonext(field, pos, ws) ==
    IF pos <= Len(field) /\ field[pos] \in LWS \cup {"\n", "\r"}
    THEN gotonext(field, pos + 1,
                  IF field[pos] \in {"\n", "\r"} THEN ws ELSE Append(ws, field[pos]))
    ELSE [pos |-> pos, ws |-> ws]

RECURSIVE getatom(_, _, _, _)
getatom(field, pos, atomends, atom) ==
    IF pos <= Len(field) /\ field[pos] \notin atomends
    THEN getatom(field, pos + 1, atomends, Append(atom, field[pos]))
    ELSE [pos |-> pos, val |-> atom]

RECURSIVE getphraselist(_, _, _)
getphraselist(field, pos, plist) ==
    IF pos > Len(field) THEN [pos |-> pos, plist |-> plist]
    ELSE IF field[pos] \in LWS \cup {"\r", "\n"}
         THEN getphraselist(field, pos + 1, plist)
    ELSE IF field[pos] \in PHRASEENDS
         THEN [pos |-> pos, plist |-> plist]
    ELSE With(getatom(field, pos, PHRASEENDS, <<>>),
              LAMBDA a : getphraselist(field, a.pos, Append(plist, a.val)))

RECURSIVE getdomain(_, _, _)
getdomain(field, pos, sdlist) ==
    IF pos > Len(field) THEN [pos |-> pos, val |-> Concat(sdlist)]
    ELSE IF field[pos] \in LWS THEN getdomain(field, pos + 1, sdlist)
    ELSE IF field[pos] = "." THEN getdomain(field, pos + 1, Append(sdlist, <<".">>))
    ELSE IF field[pos] = "@" THEN [pos |-> pos, val |-> <<>>]
    ELSE IF field[pos] \in ATOMENDS THEN [pos |-> pos, val |-> Concat(sdlist)]
    ELSE With(getatom(field, pos, ATOMENDS, <<>>),
              LAMBDA a : getdomain(field, a.pos, Append(sdlist, a.val)))

\* aslist.pop() when the last piece is blank
PopBlank(aslist) ==
    IF Len(aslist) > 0 /\ str_strip(aslist[Len(aslist)], Whitespace) = <<>>
    THEN SubSeq(aslist, 1, Len(aslist) - 1)
    ELSE aslist

\* the while loop of getaddrspec; returns the position and the pieces
RECURSIVE AddrspecLoop(_, _, _)
AddrspecLoop(field, pos, aslist) ==
    IF pos > Len(field) THEN [pos |-> pos, aslist |-> aslist]
    ELSE IF field[pos] = "."
         THEN With(<<gotonext(field, pos + 1, <<>>), Append(PopBlank(aslist), <<".">>)>>,
                   LAMBDA n : AddrspecLoop(field, n[1].pos, n[2]))
    ELSE IF field[pos] \in ATOMENDS
         THEN [pos |-> pos, aslist |-> PopBlank(aslist)]
    ELSE With(getatom(field, pos, ATOMENDS, <<>>), LAMBDA a :
         With(gotonext(field, a.pos, <<>>), LAMBDA n :
         With(IF n.ws # <<>> THEN aslist \o <<a.val, n.ws>> ELSE Append(aslist, a.val),
              LAMBDA pieces : AddrspecLoop(field, n.pos, pieces))))

getaddrspec(field, pos) ==
    With(AddrspecLoop(field, gotonext(field, pos, <<>>).pos, <<>>), LAMBDA l :
        IF l.pos > Len(field) \/ field[l.pos] # "@"
        THEN [pos |-> l.pos, val |-> Concat(l.aslist)]
        ELSE With(getdomain(field, gotonext(field, l.pos + 1, <<>>).pos, <<>>), LAMBDA d :
                 IF d.val = <<>>
                 THEN [pos |-> d.pos, val |-> <<>>]
                 ELSE [pos |-> d.pos, val |-> Concat(l.aslist) \o <<"@">> \o d.val]))

\* the trailing gotonext and comma skip of getaddress
AfterAddress(field, pos) ==
    With(gotonext(field, pos, <<>>).pos, LAMBDA n :
        IF n <= Len(field) /\ field[n] = "," THEN n + 1 ELSE n)

\* returns the position after the address and the addresses parsed (0 or 1)
getaddress(field, pos) ==
    With(gotonext(field, pos, <<>>).pos, LAMBDA oldpos :
    With(getphraselist(field, oldpos, <<>>), LAMBDA p :
    With(gotonext(field, p.pos, <<>>).pos, LAMBDA here :
        IF here > Len(field)
        THEN [pos |-> AfterAddress(field, here),
              list |-> IF p.plist # <<>> THEN <<p.plist[1]>> ELSE <<>>]
        ELSE IF field[here] \in {".", "@"}
        THEN With(getaddrspec(field, oldpos), LAMBDA a :
                 [pos |-> AfterAddress(field, a.pos), list |-> <<a.val>>])
        ELSE IF p.plist # <<>>
        THEN [pos |-> AfterAddress(field, here), list |-> <<p.plist[1]>>]
        ELSE IF field[here] \in SPECIALS
        THEN [pos |-> AfterAddress(field, here + 1), list |-> <<>>]
        ELSE [pos |-> AfterAddress(field, here), list |-> <<>>])))

RECURSIVE getaddrlist(_, _, _)
getaddrlist(field, pos, result) ==
    IF pos > Len(field) THEN result
    ELSE With(getaddress(field, pos), LAMBDA ad :
         With(IF ad.list # <<>> THEN result \o ad.list ELSE Append(result, <<>>),
              LAMBDA longer : getaddrlist(field, ad.pos, longer)))

\* the address halves of getaddresses(fieldvalues)
getaddresses(fieldvalues) ==
    With(JoinWith(fieldvalues, <<",", " ">>), LAMBDA all : getaddrlist(all, 1, <<>>))

---------------------------------------------------------------------------
(* Recipient validation (lines 71-100)                                     *)

\* Python's None: a value of its own; no string and no list of the model is
\* as long, so none is equal to it
None == <<"<", "P", "y", "t", "h", "o", "n", " ", "N", "o", "n", "e", ">">>

NoError == [exc |-> "none", msg |-> "none", arg |-> None]

Raised(exc, msg, arg) == [exc |-> exc, msg |-> msg, arg |-> arg]

\* "\r" in value or "\n" in value
HasCRLF(value) == \E i \in 1..Len(value) : value[i] \in {"\r", "\n"}

\* TRUE when _require_no_crlf(value, field_name) raises
_require_no_crlf(value) == value # None /\ HasCRLF(value)

\* the body of ^[^@\s]+@[^@\s]+\.[^@\s]+$ without the end-of-line rule of $
EmailReCore(a) ==
    /\ \A i \in 1..Len(a) : a[i] \notin Whitespace
    /\ \E i \in 2..Len(a) :
         /\ a[i] = "@"
         /\ \A j \in 1..Len(a) : a[j] = "@" => j = i
         /\ \E k \in (i + 2)..(Len(a) - 1) : a[k] = "."

\* the pattern without its \. : ^[^@\s]+@[^@\s]+$
_EMAIL_RE_match_no_dot(a) ==
    /\ \A i \in 1..Len(a) : a[i] \notin Whitespace
    /\ \E i \in 2..(Len(a) - 1) : a[i] = "@" /\ \A j \in 1..Len(a) : a[j] = "@" => j = i

\* _EMAIL_RE.match(a); $ also matches before one final "\n"
_EMAIL_RE_match(a) ==
    \/ EmailReCore(a)
    \/ /\ Len(a) > 0
       /\ a[Len(a)] = "\n"
       /\ EmailReCore(SubSeq(a, 1, Len(a) - 1))

\* [s for s in [to, cc or "", bcc or ""] if s]
CombinedFields(t, c, b) ==
    SelectSeq(<< t, IF c = None THEN <<>> ELSE c, IF b = None THEN <<>> ELSE b >>,
              LAMBDA s : s # <<>>)

\* lines 92-93: parsed addresses, stripped, empty ones dropped
ParsedAddresses(t, c, b) ==
    With(getaddresses(CombinedFields(t, c, b)), LAMBDA parsed :
    With([i \in 1..Len(parsed) |-> str_strip(parsed[i], Whitespace)], LAMBDA stripped :
        SelectSeq(stripped, LAMBDA a : a # <<>>)))

\* the first address the for loop rejects; the list is known to have one
FirstInvalid(addresses) ==
    addresses[CHOOSE i \in 1..Len(addresses) :
                 /\ \E a \in {addresses[i]} : ~ _EMAIL_RE_match(a)
                 /\ \A j \in 1..(i - 1) : \E a \in {addresses[j]} : _EMAIL_RE_match(a)]

\* the shape check of lines 97-99 is left out
_parse_and_validate_recipients_unchecked(t, c, b) ==
    IF _require_no_crlf(t) THEN [err |-> Raised("ValueError", "crlf", <<"t","o">>), ret |-> <<>>]
    ELSE IF _require_no_crlf(c) THEN [err |-> Raised("ValueError", "crlf", <<"c","c">>), ret |-> <<>>]
    ELSE IF _require_no_crlf(b) THEN [err |-> Raised("ValueError", "crlf", <<"b","c","c">>), ret |-> <<>>]
    ELSE With(ParsedAddresses(t, c, b), LAMBDA addresses :
             IF addresses = <<>>
             THEN [err |-> Raised("ValueError", "no_recipients", None), ret |-> <<>>]
             ELSE [err |-> NoError, ret |-> addresses])

\* returns the exception raised (NoError if none) and the list returned
_parse_and_validate_recipients(t, c, b) ==
    IF _require_no_crlf(t) THEN [err |-> Raised("ValueError", "crlf", <<"t","o">>), ret |-> <<>>]
    ELSE IF _require_no_crlf(c) THEN [err |-> Raised("ValueError", "crlf", <<"c","c">>), ret |-> <<>>]
    ELSE IF _require_no_crlf(b) THEN [err |-> Raised("ValueError", "crlf", <<"b","c","c">>), ret |-> <<>>]
    ELSE With(ParsedAddresses(t, c, b), LAMBDA addresses :
             IF addresses = <<>>
             THEN [err |-> Raised("ValueError", "no_recipients", None), ret |-> <<>>]
             ELSE IF \E a \in Range(addresses) : ~ _EMAIL_RE_match(a)
             THEN [err |-> Raised("ValueError", "invalid_recipient", FirstInvalid(addresses)),
                   ret |-> <<>>]
             ELSE [err |-> NoError, ret |-> addresses])

---------------------------------------------------------------------------
(* Allowlist policy (lines 71-72, 103-118)                                 *)

\* value.split(","): the pieces between commas, empty ones included
RECURSIVE SplitComma(_, _, _)
SplitComma(s, i, cur) ==
    IF i > Len(s) THEN <<cur>>
    ELSE IF s[i] = "," THEN <<cur>> \o SplitComma(s, i + 1, <<>>)
    ELSE SplitComma(s, i + 1, Append(cur, s[i]))

_split_csv(value) ==
    { str_lower(v) : v \in { str_strip(piece, Whitespace) :
                               piece \in Range(SplitComma(value, 1, <<>>)) } \ { <<>> } }

\* r_l.split("@", 1)[-1]: what follows the first "@", or all of it
DomainOf(r_l) ==
    IF \E i \in 1..Len(r_l) : r_l[i] = "@"
    THEN LET first == CHOOSE i \in 1..Len(r_l) :
                         r_l[i] = "@" /\ \A j \in 1..(i - 1) : r_l[j] # "@"
         IN  SubSeq(r_l, first + 1, Len(r_l))
    ELSE r_l

\* r is compared as given, without r.lower()
RecipientAllowed_case_sensitive(r, allowed_recipients, allowed_domains) ==
    \/ r \in allowed_recipients
    \/ DomainOf(r) \in allowed_domains

\* the body of the for loop: TRUE when recipient r is let through
RecipientAllowed(r, allowed_recipients, allowed_domains) ==
    \E r_l \in { str_lower(r) } :
        \/ r_l \in allowed_recipients
        \/ DomainOf(r_l) \in allowed_domains

\* returns the exception raised, NoError if none
_enforce_recipient_allowlist(rs, env_recipients, env_domains) ==
    With(_split_csv(env_recipients), LAMBDA allowed_recipients :
    With(_split_csv(env_domains), LAMBDA allowed_domains :
    With({ i \in 1..Len(rs) : ~ RecipientAllowed(rs[i], allowed_recipients, allowed_domains) },
         LAMBDA refused :
            IF allowed_recipients = {} /\ allowed_domains = {} THEN NoError
            ELSE IF refused = {} THEN NoError
            ELSE Raised("PermissionError", "not_allowed",
                        rs[CHOOSE i \in refused : \A j \in refused : i <= j]))))

---------------------------------------------------------------------------
(* Rate limiter (lines 121-130)                                            *)

\* line 125: the window length in seconds
WINDOW_SECONDS == 60

\* an if in place of the while: at most one entry is dropped
PruneFront_once(window, window_start) ==
    IF Len(window) > 0 /\ window[1] < window_start THEN Tail(window) ELSE window

\* the while loop: popleft while the oldest entry is before window_start
RECURSIVE PruneFront(_, _)
PruneFront(window, window_start) ==
    IF Len(window) > 0 /\ window[1] < window_start
    THEN PruneFront(Tail(window), window_start)
    ELSE window

\* > in place of >= on line 128
_enforce_send_rate_limit_off_by_one(window, now, limit) ==
    IF limit <= 0 THEN [err |-> NoError, window |-> window]
    ELSE With(PruneFront(window, now - WINDOW_SECONDS), LAMBDA pruned :
             IF Len(pruned) > limit
             THEN [err |-> Raised("PermissionError", "rate_limit", None), window |-> pruned]
             ELSE [err |-> NoError, window |-> Append(pruned, now)])

\* one uninterrupted call; returns the exception raised and the new deque
_enforce_send_rate_limit(window, now, limit) ==
    IF limit <= 0 THEN [err |-> NoError, window |-> window]
    ELSE With(PruneFront(window, now - WINDOW_SECONDS), LAMBDA pruned :
             IF Len(pruned) >= limit
             THEN [err |-> Raised("PermissionError", "rate_limit", None), window |-> pruned]
             ELSE [err |-> NoError, window |-> Append(pruned, now)])

---------------------------------------------------------------------------
(* _truncate (lines 133-138)                                               *)

\* the literal appended on line 138
TRUNCATION_MARKER ==
    <<"\n","\n",".",".",".","[","t","r","u","n","c","a","t","e","d","]",".",".",".">>

\* a limit of zero or less leaves the text as it is
_truncate_unlimited_at_zero(t, limit) ==
    IF Len(t) <= limit \/ limit <= 0
    THEN [out |-> t, flag |-> FALSE]
    ELSE [out |-> SubSeq(t, 1, limit) \o TRUNCATION_MARKER, flag |-> TRUE]

\* returns the pair (string, truncated flag)
_truncate(t, limit) ==
    IF limit <= 0
    THEN [out |-> <<>>, flag |-> t # <<>>]
    ELSE IF Len(t) <= limit
         THEN [out |-> t, flag |-> FALSE]
         ELSE [out |-> SubSeq(t, 1, limit) \o TRUNCATION_MARKER, flag |-> TRUE]

---------------------------------------------------------------------------
(* _INJECTION_PATTERNS and _detect_prompt_injection_signals (lines 162-187) *)
(* A character outside ASCII is written as its code point, "u043f".         *)

Digits == {"0","1","2","3","4","5","6","7","8","9"}

CyrillicLetters ==
    { "u0430","u0431","u0432","u0433","u0434","u0435","u0436","u0437","u0438","u0439","u043a","u043b","u043c","u043d","u043e","u043f",
      "u0440","u0441","u0442","u0443","u0444","u0445","u0446","u0447","u0448","u0449","u044a","u044b","u044c","u044d","u044e","u044f" }

\* the characters \w matches
WordChars == Range(LowerLetters) \cup Range(UpperLetters) \cup Digits \cup {"_"}
                \cup CyrillicLetters

IsWordAt(s, k) == k >= 1 /\ k <= Len(s) /\ s[k] \in WordChars

\* \b between s[k] and s[k+1]
WordBoundary(s, k) == IsWordAt(s, k) # IsWordAt(s, k + 1)

\* under (?i), the literal lit (in lower case) stands in s from position i
LiteralAt(s, i, lit) ==
    /\ i + Len(lit) - 1 <= Len(s)
    /\ \A k \in 1..Len(lit) : LowerChar(s[i + k - 1]) = lit[k]

\* (?i)\b(alt|alt|...)\b
SearchWord(s, alternatives) ==
    \E i \in 1..Len(s) : \E lit \in alternatives :
        /\ WordBoundary(s, i - 1)
        /\ LiteralAt(s, i, lit)
        /\ WordBoundary(s, i + Len(lit) - 1)

\* (?i)\b(alt|alt|...)\w*\b
SearchWordStem(s, alternatives) ==
    \E i \in 1..Len(s) : \E lit \in alternatives :
        /\ WordBoundary(s, i - 1)
        /\ LiteralAt(s, i, lit)
        /\ \E e \in (i + Len(lit) - 1)..Len(s) :
             /\ \A k \in (i + Len(lit))..e : s[k] \in WordChars
             /\ WordBoundary(s, e)

\* (?i)\b(first|...)\b.{0,n}\b(second|...)\b when closed, and
\* (?i)\b(first|...)\b.{0,n}\b(second|...)\w* otherwise; . is not a newline
SearchPair(s, firsts, n, seconds, closed) ==
    \E i \in 1..Len(s) : \E a \in firsts :
        /\ WordBoundary(s, i - 1)
        /\ LiteralAt(s, i, a)
        /\ WordBoundary(s, i + Len(a) - 1)
        /\ \E j \in (i + Len(a))..(i + Len(a) + n) :
             /\ j <= Len(s)
             /\ \A k \in (i + Len(a))..(j - 1) : s[k] # "\n"
             /\ WordBoundary(s, j - 1)
             /\ \E b \in seconds :
                  /\ LiteralAt(s, j, b)
                  /\ closed => WordBoundary(s, j + Len(b) - 1)

\* lines 162-174: the names of the catalog, in order
_INJECTION_PATTERNS ==
    << "ignore_instructions_en", "ignore_instructions_ru", "tool_calling_en",
       "tool_calling_ru", "system_prompt_terms", "exfiltration_terms",
       "exfiltration_terms_ru", "mentions_send_email",
       "mentions_download_attachment", "mentions_move_delete" >>

\* pat.search(s) for the k-th pattern of the catalog
PatternSearch(k, s) ==
    CASE k = 1 -> SearchPair(s, { <<"i","g","n","o","r","e">> }, 40,
                    { <<"i","n","s","t","r","u","c","t","i","o","n","s">>,
                      <<"s","y","s","t","e","m">>,
                      <<"d","e","v","e","l","o","p","e","r">> }, TRUE)
      [] k = 2 -> SearchPair(s,
                    { <<"u0438","u0433","u043d","u043e","u0440","u0438","u0440","u0443","u0439">>,
                      <<"u0438","u0433","u043d","u043e","u0440","u0438","u0440","u0443","u0439","u0442","u0435">>,
                      <<"u0438","u0433","u043d","u043e","u0440","u0438","u0440","u043e","u0432","u0430","u0442","u044c">> }, 60,
                    { <<"u0438","u043d","u0441","u0442","u0440","u0443","u043a","u0446">>,
                      <<"u0441","u0438","u0441","u0442","u0435","u043c","u043d">>,
                      <<"u0440","u0430","u0437","u0440","u0430","u0431","u043e","u0442","u0447","u0438","u043a">> }, FALSE)
      [] k = 3 -> SearchPair(s,
                    { <<"c","a","l","l">>,
                      <<"i","n","v","o","k","e">>,
                      <<"r","u","n">>,
                      <<"u","s","e">> }, 30,
                    { <<"t","o","o","l">>,
                      <<"f","u","n","c","t","i","o","n">>,
                      <<"a","p","i">> }, TRUE)
      [] k = 4 -> SearchPair(s,
                    { <<"u0432","u044b","u0437","u043e","u0432","u0438">>,
                      <<"u0437","u0430","u043f","u0443","u0441","u0442","u0438">>,
                      <<"u0438","u0441","u043f","u043e","u043b","u044c","u0437","u0443","u0439">> }, 30,
                    { <<"u0438","u043d","u0441","u0442","u0440","u0443","u043c","u0435","u043d","u0442">>,
                      <<"u0444","u0443","u043d","u043a","u0446">>,
                      <<"a","p","i">> }, TRUE)
      [] k = 5 -> SearchWord(s,
                    { <<"s","y","s","t","e","m"," ","p","r","o","m","p","t">>,
                      <<"d","e","v","e","l","o","p","e","r"," ","m","e","s","s","a","g","e">>,
                      <<"i","n","s","t","r","u","c","t","i","o","n"," ","h","i","e","r","a","r","c","h","y">> })
      [] k = 6 -> SearchWord(s,
                    { <<"e","x","f","i","l","t","r","a","t">>,
                      <<"l","e","a","k">>,
                      <<"s","t","e","a","l">>,
                      <<"c","r","e","d","e","n","t","i","a","l">>,
                      <<"p","a","s","s","w","o","r","d">>,
                      <<"t","o","k","e","n">>,
                      <<"a","p","i"," ","k","e","y">>,
                      <<"s","e","c","r","e","t">>,
                      <<".","e","n","v">> })
      [] k = 7 -> SearchWordStem(s,
                    { <<"u044d","u043a","u0441","u0444","u0438","u043b">>,
                      <<"u0443","u0442","u0435","u0447","u043a">>,
                      <<"u0443","u043a","u0440","u0430","u0434">>,
                      <<"u043f","u0430","u0440","u043e","u043b">>,
                      <<"u0442","u043e","u043a","u0435","u043d">>,
                      <<"u043a","u043b","u044e","u0447">>,
                      <<"u0441","u0435","u043a","u0440","u0435","u0442">>,
                      <<".","e","n","v">> })
      [] k = 8 -> SearchWord(s, { <<"s","e","n","d","_","e","m","a","i","l">> })
      [] k = 9 -> SearchWord(s, { <<"d","o","w","n","l","o","a","d","_","a","t","t","a","c","h","m","e","n","t">> })
      [] k = 10 -> SearchWord(s,
                    { <<"m","o","v","e","_","e","m","a","i","l">>,
                      <<"d","e","l","e","t","e","_","e","m","a","i","l">> })

\* line 178: "\n".join(t for t in texts if t)
JoinedTexts(ts) == JoinWith(SelectSeq(ts, LAMBDA t : t # <<>>), <<"\n">>)

\* lines 182-186: the for loop from the k-th pattern on
RECURSIVE DetectLoop(_, _, _, _)
DetectLoop(joined, k, found, max) ==
    IF k > Len(_INJECTION_PATTERNS)
    THEN found
    ELSE IF PatternSearch(k, joined)
         THEN IF Len(found) + 1 >= max
              THEN Append(found, _INJECTION_PATTERNS[k])
              ELSE DetectLoop(joined, k + 1, Append(found, _INJECTION_PATTERNS[k]), max)
         ELSE DetectLoop(joined, k + 1, found, max)

\* lines 177-187
_detect_prompt_injection_signals(ts, max) ==
    With(JoinedTexts(ts), LAMBDA joined :
        IF joined = <<>> THEN <<>> ELSE DetectLoop(joined, 1, <<>>, max))

---------------------------------------------------------------------------
(* _html_to_text, _extract_urls, _single_line (lines 141-159)              *)

\* the least k >= i at which lit stands in s (letter case ignored), 0 if none
IndexFrom(s, i, lit) ==
    IF \E k \in i..Len(s) : LiteralAt(s, k, lit)
    THEN CHOOSE k \in i..Len(s) :
            LiteralAt(s, k, lit) /\ \A j \in i..(k - 1) : ~ LiteralAt(s, j, lit)
    ELSE 0

ScriptOrStyle == { <<"s","c","r","i","p","t">>, <<"s","t","y","l","e">> }

\* (?is)<(script|style).*?>.*?</\1> matched at i: the position of the last
\* character matched, 0 when there is no match at i
ScriptEnd(s, i) ==
    IF s[i] = "<" /\ \E name \in ScriptOrStyle : LiteralAt(s, i + 1, name)
    THEN With(CHOOSE name \in ScriptOrStyle : LiteralAt(s, i + 1, name), LAMBDA name :
         With(IndexFrom(s, i + 1 + Len(name), <<">">>), LAMBDA gt :
            IF gt = 0 THEN 0
            ELSE With(IndexFrom(s, gt + 1, <<"<", "/">> \o name \o <<">">>), LAMBDA close :
                    IF close = 0 THEN 0 ELSE close + Len(name) + 2)))
    ELSE 0

\* line 143: re.sub of script and style elements by ""
RECURSIVE RemoveScripts(_, _, _)
RemoveScripts(s, i, out) ==
    IF i > Len(s) THEN out
    ELSE With(ScriptEnd(s, i), LAMBDA e :
            IF e > 0 THEN RemoveScripts(s, e + 1, out)
            ELSE RemoveScripts(s, i + 1, Append(out, s[i])))

\* (?s)<[^>]+> matched at i: the position of its ">", 0 when no match at i
TagEnd(s, i) ==
    IF s[i] = "<" /\ i + 1 <= Len(s) /\ s[i + 1] # ">"
    THEN IndexFrom(s, i + 2, <<">">>)
    ELSE 0

\* line 144: re.sub of tags by " "
RECURSIVE StripTags(_, _, _)
StripTags(s, i, out) ==
    IF i > Len(s) THEN out
    ELSE With(TagEnd(s, i), LAMBDA e :
            IF e > 0 THEN StripTags(s, e + 1, Append(out, " "))
            ELSE StripTags(s, i + 1, Append(out, s[i])))

\* line 145: html.unescape; the texts modelled hold no "&", so no character
\* reference is replaced
html_unescape(s) == s

\* line 147: re.sub(r"[ \t]+", " ", ...)
RECURSIVE CollapseBlanks(_, _, _)
CollapseBlanks(s, i, out) ==
    IF i > Len(s) THEN out
    ELSE IF s[i] \in {" ", "\t"}
         THEN IF i > 1 /\ s[i - 1] \in {" ", "\t"}
              THEN CollapseBlanks(s, i + 1, out)
              ELSE CollapseBlanks(s, i + 1, Append(out, " "))
         ELSE CollapseBlanks(s, i + 1, Append(out, s[i]))

\* \n\s+\n matched at i: the position of its last "\n", 0 when no match at i
BlankLinesEnd(s, i) ==
    IF s[i] = "\n" /\ \E q \in (i + 2)..Len(s) :
                        s[q] = "\n" /\ \A k \in (i + 1)..q : s[k] \in Whitespace
    THEN CHOOSE q \in (i + 2)..Len(s) :
            /\ s[q] = "\n" /\ \A k \in (i + 1)..q : s[k] \in Whitespace
            /\ \A r \in (q + 1)..Len(s) :
                 ~ (s[r] = "\n" /\ \A k \in (i + 1)..r : s[k] \in Whitespace)
    ELSE 0

\* line 148: re.sub(r"\n\s+\n", "\n\n", ...)
RECURSIVE CollapseBlankLines(_, _, _)
CollapseBlankLines(s, i, out) ==
    IF i > Len(s) THEN out
    ELSE With(BlankLinesEnd(s, i), LAMBDA e :
            IF e > 0 THEN CollapseBlankLines(s, e + 1, out \o <<"\n", "\n">>)
            ELSE CollapseBlankLines(s, i + 1, Append(out, s[i])))

\* lines 141-149
_html_to_text(html) ==
    With(RemoveScripts(html, 1, <<>>), LAMBDA no_script :
    With(html_unescape(StripTags(no_script, 1, <<>>)), LAMBDA no_tags :
    With(CollapseBlanks(no_tags, 1, <<>>), LAMBDA one_blank :
        str_strip(CollapseBlankLines(one_blank, 1, <<>>), Whitespace))))

\* the characters [^\s<>()"'] excludes
UrlStops == Whitespace \cup {"<", ">", "(", ")", "\"", "'"}

\* s holds exactly lit from position i on (letter case counts)
ExactAt(s, i, lit) ==
    /\ i + Len(lit) - 1 <= Len(s)
    /\ \A k \in 1..Len(lit) : s[i + k - 1] = lit[k]

\* https?:// matched at i: the number of characters matched, 0 when no match
SchemeLen(s, i) ==
    IF ExactAt(s, i, <<"h","t","t","p","s",":","/","/">>) THEN 8
    ELSE IF ExactAt(s, i, <<"h","t","t","p",":","/","/">>) THEN 7
    ELSE 0

\* the end of the longest run of characters outside UrlStops from i on
RECURSIVE UrlRunEnd(_, _)
UrlRunEnd(s, i) ==
    IF i <= Len(s) /\ s[i] \notin UrlStops THEN UrlRunEnd(s, i + 1) ELSE i - 1

\* re.findall(r"https?://[^\s<>()\"']+", text)
RECURSIVE FindUrls(_, _, _)
FindUrls(s, i, out) ==
    IF i > Len(s) THEN out
    ELSE With(SchemeLen(s, i), LAMBDA n :
            IF n > 0 /\ UrlRunEnd(s, i + n) >= i + n
            THEN With(UrlRunEnd(s, i + n), LAMBDA e :
                    FindUrls(s, e + 1, Append(out, SubSeq(s, i, e))))
            ELSE FindUrls(s, i + 1, out))

\* lines 152-155, with the default limit of 50
_extract_urls(t) ==
    With(FindUrls(t, 1, <<>>), LAMBDA urls :
        IF Len(urls) > 50 THEN SubSeq(urls, 1, 50) ELSE urls)

\* lines 158-159
_single_line(value) ==
    str_strip([i \in 1..Len(value) |-> IF value[i] \in {"\r", "\n"} THEN " " ELSE value[i]],
              Whitespace)

---------------------------------------------------------------------------
(* Inputs of the query translator                                         *)

MaxQueryTokens == 3

QueryTokens ==
    { <<"F","R","O","M">>, <<"t","o">>, <<"S","I","N","C","E">>,
      <<"A","L","L">>, <<"a","l","l">>, <<"b","@","c",".","d">>,
      <<"\"","h","i","\"">>, <<"'","a","\"","b","'">>, <<"1","-","D","e","c">> }

QueryPads == { <<>>, <<" ">> }

TokenLists == UNION { [1..n -> QueryTokens] : n \in 0..MaxQueryTokens }

Queries ==
    { lead \o JoinWith(ts, <<" ">>) \o trail :
        ts \in TokenLists, lead \in QueryPads, trail \in QueryPads }

---------------------------------------------------------------------------
(* Inputs and configurations of send_email                                 *)

MaxCalls == 3
MaxClock == 92

\* how far the clock moves between two observations
TickSteps == {30, 31}

\* line 52: the default of MAX_SEND_BODY_CHARS
MAX_SEND_BODY_CHARS == 10000

A_X == <<"a","@","x",".","c","o","m">>
B_Y == <<"b","@","y",".","c","o","m">>
A_X_mixed == <<"A","@","X",".","c","o","m">>

SubjectOk == <<"h","i">>

SendInput(t, c, b, s, n) == [to |-> t, cc |-> c, bcc |-> b, subject |-> s, body_len |-> n]

SendInputs ==
    { SendInput(A_X \o <<",", " ">> \o B_Y, None, None, SubjectOk, 2),
      SendInput(A_X, None, None, SubjectOk, 2),
      SendInput(A_X_mixed, None, B_Y, SubjectOk, 2),
      SendInput(A_X, <<"b","a","d">>, None, SubjectOk, 2),
      SendInput(<<" ">>, None, None, SubjectOk, 2),
      SendInput(A_X \o <<"\r","\n">>, None, None, SubjectOk, 2),
      SendInput(A_X, None, None, <<"h","\n","i">>, 2),
      SendInput(A_X, None, None, SubjectOk, MAX_SEND_BODY_CHARS + 1) }

\* values of the environment the server may be started with
EnvEmail == { None, <<"m","@","y","a",".","r","u">> }
EnvPassword == { None, <<"p","w">> }
EnvRateLimit == { -1, 0, 1, 2 }
EnvAllowedRecipients == { <<>>, <<" ">> \o B_Y }
EnvAllowedDomains == { <<>>, <<"X",".","c","o","m">> }

\* lines 47-59: the module-level configuration; the allowlists are stripped
InitConfig ==
    /\ EMAIL \in EnvEmail
    /\ PASSWORD \in EnvPassword
    /\ SEND_RATE_LIMIT_PER_MINUTE \in EnvRateLimit
    /\ ALLOWED_RECIPIENTS \in { str_strip(e, Whitespace) : e \in EnvAllowedRecipients }
    /\ ALLOWED_RECIPIENT_DOMAINS \in { str_strip(e, Whitespace) : e \in EnvAllowedDomains }

\* an environment that sets no credentials and no allowlist
NoMailConfig ==
    /\ EMAIL = None
    /\ PASSWORD = None
    /\ ALLOWED_RECIPIENTS = <<>>
    /\ ALLOWED_RECIPIENT_DOMAINS = <<>>

\* line 53: the default of SEND_RATE_LIMIT_PER_MINUTE
DEFAULT_SEND_RATE_LIMIT == 5

\* the configuration with only the rate limit left open
InitRateConfig ==
    /\ NoMailConfig
    /\ SEND_RATE_LIMIT_PER_MINUTE \in EnvRateLimit

\* no translation is in progress
QueryIdle == query = <<>> /\ criteria = <<>> /\ q_state = "idle"

\* no send_email call has begun
CallIdle ==
    /\ pc = "idle"
    /\ to = None /\ cc = None /\ bcc = None /\ subject = None /\ body_len = 0
    /\ recipients = None
    /\ error = NoError
    /\ policy_arg = None
    /\ smtp_open = FALSE
    /\ smtp_opened = FALSE
    /\ transmitted = None
    /\ window_before = <<>>
    /\ now_at_call = -1
    /\ calls = 0

\* no caller is inside the rate limiter
RaceIdle == rl_pc = <<>> /\ rl_now = <<>>

\* stands for the pair _truncate has not returned yet
NotTruncated == [out |-> None, flag |-> FALSE]

\* _truncate has not been called
TruncIdle == text = <<>> /\ max_chars = 0 /\ truncate_ret = NotTruncated /\ truncate_again = NotTruncated

\* lines 51, 54, 55: the defaults of the reading tools' configuration
DefaultReadConfig ==
    /\ MAX_READ_BODY_CHARS = 20000
    /\ ENABLE_INJECTION_LOGGING = TRUE
    /\ INJECTION_SIGNALS_MAX = 10

\* the detector has not been called
DetectIdle == texts = <<>> /\ signals = None

\* stands for the absence of a message
NoMessage == [absent |-> TRUE]

\* stands for the absence of a return value
NoResult == [status |-> "none"]

\* a server folder state: message numbers in the source folder, those of
\* them flagged \Deleted, and the message numbers copied to the destination
Mailbox(source, flagged, copies) ==
    [source |-> source, flagged |-> flagged, copies |-> copies]

\* the local variables of search_emails and read_email before they are set
LocalsUnset ==
    /\ ids = <<>> /\ ids_pos = 0 /\ emails = <<>>
    /\ fetched_msg = NoMessage
    /\ body_text = <<>> /\ body_html = <<>>
    /\ attachments = <<>> /\ extracted_urls = <<>>
    /\ truncated = FALSE
    /\ ret = NoResult
    /\ log = <<>>
    /\ disk = {}

\* no IMAP tool has been called
ImapIdle ==
    /\ op = "none" /\ email_id = 0 /\ search_limit = 0 /\ filename = <<>>
    /\ stored = NoMessage
    /\ search_hits = <<>>
    /\ mailbox = Mailbox({}, {}, {})
    /\ mailbox_before = Mailbox({}, {}, {})
    /\ folder_data = <<>>
    /\ imap_open = FALSE /\ imap_opened = 0
    /\ LocalsUnset

\* none of the reading tools or their helpers is in use
ToolIdle == TruncIdle /\ DefaultReadConfig /\ DetectIdle /\ ImapIdle

---------------------------------------------------------------------------
(* send_email (lines 562-621), one call at a time                          *)

\* the order of the statements of send_email
send_email_steps ==
    << "check_email",    \* 583-584
       "no_crlf",        \* 587-590
       "body_size",      \* 592-593
       "rate_limit",     \* 595
       "build_msg",      \* 597-607
       "validate",       \* 609
       "allowlist",      \* 610
       "smtp_connect",   \* 612, smtp_connection 227-234
       "smtp_send",      \* 613, smtp_connection 235-239
       "return" >>       \* 615-621

\* the SMTP session is entered before the recipients are validated
StepAfter_connect_first(step) ==
    LET steps == << "check_email", "no_crlf", "body_size", "rate_limit", "build_msg",
                    "smtp_connect", "validate", "allowlist", "smtp_send", "return" >>
    IN  steps[1 + CHOOSE i \in 1..Len(steps) : steps[i] = step]

StepAfter(step) ==
    send_email_steps[1 + CHOOSE i \in 1..Len(send_email_steps) : send_email_steps[i] = step]

\* an exception leaves the call; the with block's finally quits the connection
Raise(e) ==
    /\ pc' = "raised"
    /\ error' = e
    /\ smtp_open' = FALSE

Goto(step) ==
    /\ pc' = StepAfter(step)
    /\ UNCHANGED error

otherVars == <<queryVars, configVars, admit_log, raceVars, toolVars>>

\* the tool is invoked with some arguments
SendCall ==
    /\ pc \in {"idle", "returned", "raised"}
    /\ calls < MaxCalls
    /\ \E in \in SendInputs :
         /\ to' = in.to /\ cc' = in.cc /\ bcc' = in.bcc
         /\ subject' = in.subject /\ body_len' = in.body_len
    /\ pc' = send_email_steps[1]
    /\ recipients' = None
    /\ error' = NoError
    /\ policy_arg' = None
    /\ smtp_open' = FALSE
    /\ smtp_opened' = FALSE
    /\ transmitted' = None
    /\ window_before' = _send_timestamps
    /\ now_at_call' = -1
    /\ calls' = calls + 1
    /\ UNCHANGED <<_send_timestamps, clock, otherVars>>

\* time passes between calls
Tick ==
    /\ pc \in {"idle", "returned", "raised"}
    /\ \E d \in TickSteps : clock + d <= MaxClock /\ clock' = clock + d
    /\ UNCHANGED <<_send_timestamps, inputVars, callVars, otherVars>>

\* lines 583-584
SendCheckEmail ==
    /\ pc = "check_email"
    /\ IF EMAIL = None \/ EMAIL = <<>>
       THEN Raise(Raised("ValueError", "email_unset", None))
       ELSE Goto("check_email") /\ UNCHANGED smtp_open
    /\ UNCHANGED <<_send_timestamps, clock, inputVars, recipients, policy_arg,
                   smtp_opened, transmitted, window_before, now_at_call, calls, otherVars>>

\* lines 587-590
SendNoCrlf ==
    /\ pc = "no_crlf"
    /\ IF _require_no_crlf(subject)
       THEN Raise(Raised("ValueError", "crlf", <<"s","u","b","j","e","c","t">>))
       ELSE IF _require_no_crlf(to) THEN Raise(Raised("ValueError", "crlf", <<"t","o">>))
       ELSE IF _require_no_crlf(cc) THEN Raise(Raised("ValueError", "crlf", <<"c","c">>))
       ELSE IF _require_no_crlf(bcc) THEN Raise(Raised("ValueError", "crlf", <<"b","c","c">>))
       ELSE Goto("no_crlf") /\ UNCHANGED smtp_open
    /\ UNCHANGED <<_send_timestamps, clock, inputVars, recipients, policy_arg,
                   smtp_opened, transmitted, window_before, now_at_call, calls, otherVars>>

\* lines 592-593
SendBodySize ==
    /\ pc = "body_size"
    /\ IF body_len > MAX_SEND_BODY_CHARS
       THEN Raise(Raised("PermissionError", "body_too_large", None))
       ELSE Goto("body_size") /\ UNCHANGED smtp_open
    /\ UNCHANGED <<_send_timestamps, clock, inputVars, recipients, policy_arg,
                   smtp_opened, transmitted, window_before, now_at_call, calls, otherVars>>

\* line 595
SendRateLimit ==
    /\ pc = "rate_limit"
    /\ \E r \in { _enforce_send_rate_limit(_send_timestamps, clock,
                                            SEND_RATE_LIMIT_PER_MINUTE) } :
           /\ _send_timestamps' = r.window
           /\ IF r.err # NoError THEN Raise(r.err)
              ELSE Goto("rate_limit") /\ UNCHANGED smtp_open
    /\ now_at_call' = clock
    /\ UNCHANGED <<clock, inputVars, recipients, policy_arg,
                   smtp_opened, transmitted, window_before, calls, otherVars>>

\* lines 597-607: the message object is built from the arguments
SendBuildMsg ==
    /\ pc = "build_msg"
    /\ Goto("build_msg")
    /\ UNCHANGED <<_send_timestamps, clock, inputVars, recipients, policy_arg, smtp_open,
                   smtp_opened, transmitted, window_before, now_at_call, calls, otherVars>>

\* line 609
SendValidate ==
    /\ pc = "validate"
    /\ \E r \in { _parse_and_validate_recipients(to, cc, bcc) } :
           IF r.err # NoError
           THEN Raise(r.err) /\ UNCHANGED recipients
           ELSE Goto("validate") /\ recipients' = r.ret /\ UNCHANGED smtp_open
    /\ UNCHANGED <<_send_timestamps, clock, inputVars, policy_arg,
                   smtp_opened, transmitted, window_before, now_at_call, calls, otherVars>>

\* line 610
SendAllowlist ==
    /\ pc = "allowlist"
    /\ policy_arg' = recipients
    /\ \E e \in { _enforce_recipient_allowlist(recipients, ALLOWED_RECIPIENTS,
                                                ALLOWED_RECIPIENT_DOMAINS) } :
           IF e # NoError THEN Raise(e)
           ELSE Goto("allowlist") /\ UNCHANGED smtp_open
    /\ UNCHANGED <<_send_timestamps, clock, inputVars, recipients,
                   smtp_opened, transmitted, window_before, now_at_call, calls, otherVars>>

\* line 612 and smtp_connection up to its yield (lines 227-234); the
\* network may refuse the connection, the TLS upgrade or the login
SendSmtpConnect ==
    /\ pc = "smtp_connect"
    /\ IF EMAIL \in {None, <<>>} \/ PASSWORD \in {None, <<>>}
       THEN Raise(Raised("ValueError", "credentials_unset", None)) /\ UNCHANGED smtp_opened
       ELSE \/ Raise(Raised("OSError", "smtp_connect_failed", None)) /\ UNCHANGED smtp_opened
            \/ Raise(Raised("SMTPException", "smtp_login_failed", None)) /\ smtp_opened' = TRUE
            \/ Goto("smtp_connect") /\ smtp_open' = TRUE /\ smtp_opened' = TRUE
    /\ UNCHANGED <<_send_timestamps, clock, inputVars, recipients, policy_arg,
                   transmitted, window_before, now_at_call, calls, otherVars>>

\* line 613 and the finally of smtp_connection (lines 235-239)
SendSmtpSend ==
    /\ pc = "smtp_send"
    /\ \/ Raise(Raised("SMTPException", "smtp_send_failed", None)) /\ UNCHANGED transmitted
       \/ Goto("smtp_send") /\ transmitted' = recipients /\ smtp_open' = FALSE
    /\ UNCHANGED <<_send_timestamps, clock, inputVars, recipients, policy_arg,
                   smtp_opened, window_before, now_at_call, calls, otherVars>>

\* lines 615-621
SendReturn ==
    /\ pc = "return"
    /\ pc' = "returned"
    /\ UNCHANGED <<_send_timestamps, clock, inputVars, recipients, error, policy_arg, smtp_open,
                   smtp_opened, transmitted, window_before, now_at_call, calls, otherVars>>

InitSend ==
    /\ InitConfig
    /\ _send_timestamps = <<>>
    /\ clock = 0
    /\ CallIdle
    /\ admit_log = <<>>
    /\ QueryIdle
    /\ RaceIdle
    /\ ToolIdle

NextSend ==
    \/ SendCall
    \/ Tick
    \/ SendCheckEmail
    \/ SendNoCrlf
    \/ SendBodySize
    \/ SendRateLimit
    \/ SendBuildMsg
    \/ SendValidate
    \/ SendAllowlist
    \/ SendSmtpConnect
    \/ SendSmtpSend
    \/ SendReturn

SpecSend == InitSend /\ [][NextSend]_vars

---------------------------------------------------------------------------
(* Specification of the query translator                                   *)

\* a caller has chosen the query argument; nothing is translated yet
InitQuery ==
    /\ query \in Queries
    /\ criteria = <<>>
    /\ q_state = "idle"
    /\ NoMailConfig
    /\ SEND_RATE_LIMIT_PER_MINUTE = DEFAULT_SEND_RATE_LIMIT
    /\ _send_timestamps = <<>>
    /\ clock = 0
    /\ CallIdle
    /\ admit_log = <<>>
    /\ RaceIdle
    /\ ToolIdle

\* search_emails line 347: criteria = build_imap_search_criteria(query)
BuildCriteria ==
    /\ q_state = "idle"
    /\ criteria' = build_imap_search_criteria(query)
    /\ q_state' = "done"
    /\ UNCHANGED <<query, configVars, _send_timestamps, clock, inputVars,
                   callVars, admit_log, raceVars, toolVars>>

NextQuery == BuildCriteria

SpecQuery == InitQuery /\ [][NextQuery]_vars

---------------------------------------------------------------------------
(* The rate limiter called one call at a time                              *)

MaxAdmits == 4

InitRate ==
    /\ InitRateConfig
    /\ _send_timestamps = <<>>
    /\ clock = 0
    /\ CallIdle
    /\ admit_log = <<>>
    /\ QueryIdle
    /\ RaceIdle
    /\ ToolIdle

\* lines 121-130, run to completion; the call is recorded in admit_log
Admit ==
    /\ Len(admit_log) < MaxAdmits
    /\ \E r \in { _enforce_send_rate_limit(_send_timestamps, clock,
                                            SEND_RATE_LIMIT_PER_MINUTE) } :
           /\ _send_timestamps' = r.window
           /\ admit_log' = Append(admit_log,
                  [t |-> clock, ok |-> r.err = NoError,
                   before |-> _send_timestamps, after |-> r.window])
    /\ UNCHANGED <<clock, queryVars, configVars, inputVars, callVars, raceVars, toolVars>>

\* time passes between two calls
RateTick ==
    /\ \E d \in TickSteps : clock + d <= MaxClock /\ clock' = clock + d
    /\ UNCHANGED <<_send_timestamps, admit_log, queryVars, configVars, inputVars,
                   callVars, raceVars, toolVars>>

NextRate == Admit \/ RateTick

SpecRate == InitRate /\ [][NextRate]_vars

---------------------------------------------------------------------------
(* Concurrent callers of _enforce_send_rate_limit: the function holds no   *)
(* lock, so threads interleave between its statements                      *)

NumCallers == 2

Callers == 1..NumCallers

InitRace ==
    /\ InitRateConfig
    /\ _send_timestamps = <<>>
    /\ clock = 0
    /\ CallIdle
    /\ admit_log = <<>>
    /\ QueryIdle
    /\ rl_pc = [c \in Callers |-> "idle"]
    /\ rl_now = [c \in Callers |-> -1]
    /\ ToolIdle

raceOther == <<queryVars, configVars, inputVars, admit_log,
               pc, recipients, error, policy_arg, smtp_open, smtp_opened,
               transmitted, window_before, now_at_call, toolVars>>

\* a thread's send_email reaches line 595
RaceEnter(c) ==
    /\ rl_pc[c] \in {"idle", "admitted", "rejected", "crashed"}
    /\ calls < MaxCalls
    /\ calls' = calls + 1
    /\ rl_pc' = [rl_pc EXCEPT ![c] = "limit_check"]
    /\ UNCHANGED <<_send_timestamps, clock, rl_now, raceOther>>

\* lines 122-123
RaceLimitCheck(c) ==
    /\ rl_pc[c] = "limit_check"
    /\ rl_pc' = [rl_pc EXCEPT ![c] =
                    IF SEND_RATE_LIMIT_PER_MINUTE <= 0 THEN "admitted" ELSE "read_clock"]
    /\ UNCHANGED <<_send_timestamps, clock, rl_now, calls, raceOther>>

\* lines 124-125
RaceReadClock(c) ==
    /\ rl_pc[c] = "read_clock"
    /\ rl_now' = [rl_now EXCEPT ![c] = clock]
    /\ rl_pc' = [rl_pc EXCEPT ![c] = "loop_test"]
    /\ UNCHANGED <<_send_timestamps, clock, calls, raceOther>>

\* line 126
RaceLoopTest(c) ==
    /\ rl_pc[c] = "loop_test"
    /\ rl_pc' = [rl_pc EXCEPT ![c] =
                    IF /\ Len(_send_timestamps) > 0
                       /\ _send_timestamps[1] < rl_now[c] - WINDOW_SECONDS
                    THEN "popleft" ELSE "len_check"]
    /\ UNCHANGED <<_send_timestamps, clock, rl_now, calls, raceOther>>

\* line 127; popleft on a deque another thread has emptied raises IndexError
RacePopLeft(c) ==
    /\ rl_pc[c] = "popleft"
    /\ IF Len(_send_timestamps) = 0
       THEN /\ rl_pc' = [rl_pc EXCEPT ![c] = "crashed"]
            /\ UNCHANGED _send_timestamps
       ELSE /\ _send_timestamps' = Tail(_send_timestamps)
            /\ rl_pc' = [rl_pc EXCEPT ![c] = "loop_test"]
    /\ UNCHANGED <<clock, rl_now, calls, raceOther>>

\* lines 128-129
RaceLenCheck(c) ==
    /\ rl_pc[c] = "len_check"
    /\ rl_pc' = [rl_pc EXCEPT ![c] =
                    IF Len(_send_timestamps) >= SEND_RATE_LIMIT_PER_MINUTE
                    THEN "rejected" ELSE "append"]
    /\ UNCHANGED <<_send_timestamps, clock, rl_now, calls, raceOther>>

\* line 130
RaceAppend(c) ==
    /\ rl_pc[c] = "append"
    /\ _send_timestamps' = Append(_send_timestamps, rl_now[c])
    /\ rl_pc' = [rl_pc EXCEPT ![c] = "admitted"]
    /\ UNCHANGED <<clock, rl_now, calls, raceOther>>

\* time passes while the threads run
RaceTick ==
    /\ \E d \in TickSteps : clock + d <= MaxClock /\ clock' = clock + d
    /\ UNCHANGED <<_send_timestamps, rl_pc, rl_now, calls, raceOther>>

NextRace ==
    \/ \E c \in Callers :
         \/ RaceEnter(c)
         \/ RaceLimitCheck(c)
         \/ RaceReadClock(c)
         \/ RaceLoopTest(c)
         \/ RacePopLeft(c)
         \/ RaceLenCheck(c)
         \/ RaceAppend(c)
    \/ RaceTick

SpecRace == InitRace /\ [][NextRace]_vars

---------------------------------------------------------------------------
(* _parse_and_validate_recipients called on its own                        *)

MaxFieldItems == 2

\* what a caller may write between the commas of a recipient field
ParseItems ==
    { A_X, B_Y, <<"b","a","d">>, <<"a","@","x">>, <<>>,
      <<"a"," ","@","x",".","c">>, <<"a","@","@","x",".","c">>,
      <<"b","@","y",".","c","\n">> }

ItemLists(n) == UNION { [1..k -> ParseItems] : k \in 0..n }

ParseFields(n) == { JoinWith(items, <<",", " ">>) : items \in ItemLists(n) }

InitParse ==
    /\ to \in ParseFields(MaxFieldItems)
    /\ cc \in {None} \cup ParseFields(1)
    /\ bcc \in {None, B_Y, <<"b","a","d">>, <<"\r">>}
    /\ subject = None /\ body_len = 0
    /\ pc = "parse_call"
    /\ recipients = None
    /\ error = NoError
    /\ policy_arg = None
    /\ smtp_open = FALSE /\ smtp_opened = FALSE /\ transmitted = None
    /\ window_before = <<>> /\ now_at_call = -1 /\ calls = 0
    /\ NoMailConfig
    /\ SEND_RATE_LIMIT_PER_MINUTE = DEFAULT_SEND_RATE_LIMIT
    /\ _send_timestamps = <<>>
    /\ clock = 0
    /\ admit_log = <<>>
    /\ QueryIdle
    /\ RaceIdle
    /\ ToolIdle

\* lines 85-100
ParseRecipients ==
    /\ pc = "parse_call"
    /\ \E r \in { _parse_and_validate_recipients(to, cc, bcc) } :
         /\ error' = r.err
         /\ recipients' = IF r.err = NoError THEN r.ret ELSE None
         /\ pc' = IF r.err = NoError THEN "returned" ELSE "raised"
    /\ UNCHANGED <<_send_timestamps, clock, inputVars, policy_arg, smtp_open, smtp_opened,
                   transmitted, window_before, now_at_call, calls, otherVars>>

NextParse == ParseRecipients

SpecParse == InitParse /\ [][NextParse]_vars

---------------------------------------------------------------------------
(* _enforce_recipient_allowlist called on its own, with validated lists    *)

MaxRecipients == 2

PolicyAddresses ==
    { A_X, A_X_mixed, B_Y, <<"b","@","Y",".","c","o","m">>,
      <<"c","@","z",".","x",".","c","o","m">>, <<"x",".","c","o","m","@","y",".","c","o","m">> }

PolicyEnvRecipients ==
    { <<>>, <<" ">> \o B_Y, <<"B","@","Y",".","c","o","m"," ",",">> \o A_X, <<" ",","," ">> }

PolicyEnvDomains ==
    { <<>>, <<"x",".","c","o","m">>, <<"X",".","c","o","m",",","y",".","c","o","m">>, <<",">> }

InitPolicy ==
    /\ recipients \in UNION { [1..n -> PolicyAddresses] : n \in 1..MaxRecipients }
    /\ ALLOWED_RECIPIENTS \in { str_strip(e, Whitespace) : e \in PolicyEnvRecipients }
    /\ ALLOWED_RECIPIENT_DOMAINS \in { str_strip(e, Whitespace) : e \in PolicyEnvDomains }
    /\ EMAIL = None /\ PASSWORD = None
    /\ SEND_RATE_LIMIT_PER_MINUTE = DEFAULT_SEND_RATE_LIMIT
    /\ to = None /\ cc = None /\ bcc = None /\ subject = None /\ body_len = 0
    /\ pc = "policy_call"
    /\ error = NoError
    /\ policy_arg = None
    /\ smtp_open = FALSE /\ smtp_opened = FALSE /\ transmitted = None
    /\ window_before = <<>> /\ now_at_call = -1 /\ calls = 0
    /\ _send_timestamps = <<>>
    /\ clock = 0
    /\ admit_log = <<>>
    /\ QueryIdle
    /\ RaceIdle
    /\ ToolIdle

\* lines 103-118
EnforceAllowlist ==
    /\ pc = "policy_call"
    /\ policy_arg' = recipients
    /\ \E e \in { _enforce_recipient_allowlist(recipients, ALLOWED_RECIPIENTS,
                                                ALLOWED_RECIPIENT_DOMAINS) } :
         /\ error' = e
         /\ pc' = IF e = NoError THEN "returned" ELSE "raised"
    /\ UNCHANGED <<_send_timestamps, clock, inputVars, recipients, smtp_open, smtp_opened,
                   transmitted, window_before, now_at_call, calls, otherVars>>

NextPolicy == EnforceAllowlist

SpecPolicy == InitPolicy /\ [][NextPolicy]_vars

---------------------------------------------------------------------------
(* _truncate called on its own, then on its own result                     *)

MaxTextLen == 3

TruncateTexts == UNION { [1..n -> {"a", "b"}] : n \in 0..MaxTextLen }

TruncateLimits == -1..(MaxTextLen + 1)

InitTruncate ==
    /\ text \in TruncateTexts
    /\ max_chars \in TruncateLimits
    /\ truncate_ret = NotTruncated
    /\ truncate_again = NotTruncated
    /\ DefaultReadConfig
    /\ DetectIdle
    /\ ImapIdle
    /\ NoMailConfig
    /\ SEND_RATE_LIMIT_PER_MINUTE = DEFAULT_SEND_RATE_LIMIT
    /\ _send_timestamps = <<>>
    /\ clock = 0
    /\ CallIdle
    /\ admit_log = <<>>
    /\ QueryIdle
    /\ RaceIdle

truncOther == <<queryVars, configVars, _send_timestamps, clock, inputVars,
                callVars, admit_log, raceVars, readConfigVars, detectVars, imapVars>>

\* lines 133-138
Truncate ==
    /\ truncate_ret = NotTruncated
    /\ truncate_ret' = _truncate(text, max_chars)
    /\ UNCHANGED <<text, max_chars, truncate_again, truncOther>>

\* lines 133-138 on the string just returned, with the same limit
TruncateAgain ==
    /\ truncate_ret # NotTruncated
    /\ truncate_again = NotTruncated
    /\ truncate_again' = _truncate(truncate_ret.out, max_chars)
    /\ UNCHANGED <<text, max_chars, truncate_ret, truncOther>>

NextTruncate == Truncate \/ TruncateAgain

SpecTruncate == InitTruncate /\ [][NextTruncate]_vars

---------------------------------------------------------------------------
(* _detect_prompt_injection_signals called on its own                      *)

MaxTexts == 2
MaxWords == 2

DetectWords ==
    { <<"i","g","n","o","r","e">>, <<"S","y","s","t","e","m">>, <<"a",".","e","n","v">>,
      <<"s","e","n","d","_","e","m","a","i","l">>,
      <<"d","e","l","e","t","e","_","e","m","a","i","l">> }

\* texts of up to n words, one blank between two words
DetectTexts(n) ==
    { JoinWith(ws, <<" ">>) : ws \in UNION { [1..k -> DetectWords] : k \in 0..n } }

EnvSignalsMax == {0, 1, 2, 10}

InitDetect ==
    /\ texts \in UNION { [1..n -> DetectTexts(MaxWords)] : n \in 0..MaxTexts }
    /\ signals = None
    /\ INJECTION_SIGNALS_MAX \in EnvSignalsMax
    /\ MAX_READ_BODY_CHARS = 20000
    /\ ENABLE_INJECTION_LOGGING = TRUE
    /\ TruncIdle
    /\ ImapIdle
    /\ NoMailConfig
    /\ SEND_RATE_LIMIT_PER_MINUTE = DEFAULT_SEND_RATE_LIMIT
    /\ _send_timestamps = <<>>
    /\ clock = 0
    /\ CallIdle
    /\ admit_log = <<>>
    /\ QueryIdle
    /\ RaceIdle

\* lines 177-187
Detect ==
    /\ signals = None
    /\ signals' = _detect_prompt_injection_signals(texts, INJECTION_SIGNALS_MAX)
    /\ UNCHANGED <<texts, queryVars, configVars, _send_timestamps, clock, inputVars,
                   callVars, admit_log, raceVars, truncVars, readConfigVars, imapVars>>

NextDetect == Detect

SpecDetect == InitDetect /\ [][NextDetect]_vars

---------------------------------------------------------------------------
(* imap_connection (lines 207-221) as entered and left by every IMAP tool  *)

\* what no IMAP tool touches
imapOther == <<configVars, _send_timestamps, clock, inputVars, recipients, policy_arg,
               smtp_open, smtp_opened, transmitted, window_before, now_at_call, calls,
               admit_log, raceVars, truncVars, readConfigVars, imapArgs>>

\* the connection was lost while a command was in progress
ConnectionLost == Raised("IMAP4.abort", "connection_lost", None)

\* an exception inside the with block, or from login: the finally clause of
\* imap_connection runs next
ImapFail(e) ==
    /\ pc' = "imap_logout"
    /\ error' = e

\* the first statement of the with block
FirstStep(tool) == IF tool = "list_folders" THEN "list" ELSE "select"

\* the statement after a successful select
AfterSelect(tool) ==
    CASE tool = "search_emails" -> "search"
      [] tool \in {"read_email", "download_attachment"} -> "fetch"
      [] tool \in {"move_email", "delete_email"} -> "copy"

\* lines 210-213: the credentials check and the IMAP4_SSL constructor
ImapEnter ==
    /\ pc = "imap_enter"
    /\ IF EMAIL \in {None, <<>>} \/ PASSWORD \in {None, <<>>}
       THEN /\ pc' = "raised"
            /\ error' = Raised("ValueError", "credentials_unset", None)
            /\ UNCHANGED <<imap_open, imap_opened>>
       ELSE \/ /\ pc' = "raised"
               /\ error' = Raised("OSError", "imap_connect_failed", None)
               /\ UNCHANGED <<imap_open, imap_opened>>
            \/ /\ pc' = "imap_login"
               /\ imap_open' = TRUE
               /\ imap_opened' = imap_opened + 1
               /\ UNCHANGED error
    /\ UNCHANGED <<imapOther, queryVars, detectVars, mailbox, searchLocals, readLocals, outVars>>

\* lines 214-216: login, then the with block is entered
ImapLogin ==
    /\ pc = "imap_login"
    /\ \/ ImapFail(Raised("IMAP4.error", "login_failed", None))
       \/ pc' = FirstStep(op) /\ UNCHANGED error
    /\ UNCHANGED <<imapOther, queryVars, detectVars, imapState, searchLocals, readLocals,
                   outVars>>

\* as ImapLogout, but logout is called only when the with block ended normally
ImapLogout_skipped_on_error ==
    /\ pc = "imap_logout"
    /\ imap_open' = IF error = NoError THEN FALSE ELSE imap_open
    /\ pc' = IF error = NoError THEN "returned" ELSE "raised"
    /\ UNCHANGED <<imapOther, queryVars, detectVars, error, mailbox, imap_opened,
                   searchLocals, readLocals, outVars>>

\* lines 217-221: the finally clause; an error of logout itself is swallowed,
\* then the pending exception, if any, leaves the tool
ImapLogout ==
    /\ pc = "imap_logout"
    /\ imap_open' = FALSE
    /\ pc' = IF error = NoError THEN "returned" ELSE "raised"
    /\ UNCHANGED <<imapOther, queryVars, detectVars, error, mailbox, imap_opened,
                   searchLocals, readLocals, outVars>>

\* conn.select(folder) and its status test (342-344, 405-407, 522-524,
\* 636-638, 675-677)
Select ==
    /\ pc = "select"
    /\ \/ ImapFail(ConnectionLost)
       \/ ImapFail(Raised("Exception", "select_failed", None))
       \/ pc' = AfterSelect(op) /\ UNCHANGED error
    /\ UNCHANGED <<imapOther, queryVars, detectVars, imapState, searchLocals, readLocals,
                   outVars>>

---------------------------------------------------------------------------
(* read_email (lines 391-492)                                              *)

\* decode_mime_header (lines 190-204) for a header without encoded words:
\* decode_header gives back the one str part, and "" stays ""
decode_mime_header(header_value) == header_value

\* needle in haystack
Contains(haystack, needle) == \E k \in 1..Len(haystack) : ExactAt(haystack, k, needle)

S_attachment == <<"a","t","t","a","c","h","m","e","n","t">>

NoBodies == [body_text |-> <<>>, body_html |-> <<>>, attachments |-> <<>>]

\* lines 428-447: the loop over the parts of a multipart message
RECURSIVE WalkParts(_, _, _)
WalkParts(parts, k, acc) ==
    IF k > Len(parts) THEN acc
    ELSE IF Contains(parts[k].content_disposition, S_attachment)
         THEN IF parts[k].filename # <<>>
              THEN WalkParts(parts, k + 1,
                     [acc EXCEPT !.attachments = Append(@,
                        [filename |-> decode_mime_header(parts[k].filename),
                         content_type |-> parts[k].content_type,
                         size |-> Len(parts[k].payload)])])
              ELSE WalkParts(parts, k + 1, acc)
         ELSE IF parts[k].content_type = "text/plain" /\ acc.body_text = <<>>
              THEN WalkParts(parts, k + 1, [acc EXCEPT !.body_text = parts[k].payload])
         ELSE IF parts[k].content_type = "text/html" /\ acc.body_html = <<>>
              THEN WalkParts(parts, k + 1, [acc EXCEPT !.body_html = parts[k].payload])
         ELSE WalkParts(parts, k + 1, acc)

\* lines 421-454
ExtractBodies(m) ==
    IF m.is_multipart
    THEN WalkParts(m.parts, 1, NoBodies)
    ELSE IF m.content_type = "text/html"
         THEN [NoBodies EXCEPT !.body_html = m.payload]
         ELSE [NoBodies EXCEPT !.body_text = m.payload]

\* value[:n]
Take(value, n) == IF Len(value) > n THEN SubSeq(value, 1, n) ELSE value

\* lines 409-411 and 413: the fetch, its status test, and msg_data[0][1]
ReadFetch ==
    /\ pc = "fetch"
    /\ op = "read_email"
    /\ \/ ImapFail(ConnectionLost) /\ UNCHANGED fetched_msg
       \/ ImapFail(Raised("Exception", "fetch_failed", None)) /\ UNCHANGED fetched_msg
       \/ /\ stored = NoMessage
          /\ ImapFail(Raised("TypeError", "fetch_empty", None))
          /\ UNCHANGED fetched_msg
       \/ /\ stored # NoMessage
          /\ fetched_msg' = stored
          /\ pc' = "parse"
          /\ UNCHANGED error
    /\ UNCHANGED <<imapOther, queryVars, detectVars, imapState, searchLocals,
                   body_text, body_html, attachments, extracted_urls, truncated, outVars>>

\* lines 414-458
ReadParse ==
    /\ pc = "parse"
    /\ \E b \in { ExtractBodies(fetched_msg) } :
         /\ body_text' = IF b.body_text = <<>> /\ b.body_html # <<>>
                         THEN _html_to_text(b.body_html)
                         ELSE b.body_text
         /\ body_html' = b.body_html
         /\ attachments' = b.attachments
    /\ pc' = "truncate"
    /\ UNCHANGED <<imapOther, queryVars, detectVars, error, imapState, searchLocals,
                   fetched_msg, extracted_urls, truncated, outVars>>

\* lines 461-465
ReadTruncate ==
    /\ pc = "truncate"
    /\ \E t1 \in { _truncate(body_text, MAX_READ_BODY_CHARS) } :
       \E t2 \in { _truncate(body_html, MAX_READ_BODY_CHARS) } :
         /\ body_text' = t1.out
         /\ body_html' = t2.out
         /\ truncated' = (t1.flag \/ t2.flag)
         /\ extracted_urls' = _extract_urls(t1.out)
    /\ pc' = "detect"
    /\ UNCHANGED <<imapOther, queryVars, detectVars, error, imapState, searchLocals,
                   fetched_msg, attachments, outVars>>

\* the arguments of the call on line 469
DetectorInputs ==
    << decode_mime_header(fetched_msg.Subject), decode_mime_header(fetched_msg.From),
       decode_mime_header(fetched_msg.To), body_text,
       IF body_html # <<>> THEN _html_to_text(body_html) ELSE <<>> >>

\* the arguments of logger.warning on lines 471-478
LogEntry(found) ==
    [email_id |-> email_id, signals |-> found,
     from |-> Take(_single_line(decode_mime_header(fetched_msg.From)), 200),
     subject |-> Take(_single_line(decode_mime_header(fetched_msg.Subject)), 200)]

\* a detection blanks the body that is returned
ReadDetect_redacting ==
    /\ pc = "detect"
    /\ IF ENABLE_INJECTION_LOGGING
       THEN \E found \in { _detect_prompt_injection_signals(DetectorInputs,
                                                          INJECTION_SIGNALS_MAX) } :
              /\ texts' = DetectorInputs
              /\ signals' = found
              /\ log' = IF found # <<>> THEN Append(log, LogEntry(found)) ELSE log
              /\ body_text' = IF found # <<>> THEN <<>> ELSE body_text
       ELSE UNCHANGED <<detectVars, log, body_text>>
    /\ pc' = "return"
    /\ UNCHANGED <<imapOther, queryVars, error, imapState, searchLocals, fetched_msg,
                   body_html, attachments, extracted_urls, truncated, ret, disk>>

\* lines 467-478
ReadDetect ==
    /\ pc = "detect"
    /\ IF ENABLE_INJECTION_LOGGING
       THEN \E found \in { _detect_prompt_injection_signals(DetectorInputs,
                                                          INJECTION_SIGNALS_MAX) } :
              /\ texts' = DetectorInputs
              /\ signals' = found
              /\ log' = IF found # <<>> THEN Append(log, LogEntry(found)) ELSE log
       ELSE UNCHANGED <<detectVars, log>>
    /\ pc' = "return"
    /\ UNCHANGED <<imapOther, queryVars, error, imapState, searchLocals, readLocals, ret,
                   disk>>

\* lines 480-492: the return statement, which leaves the with block
ReadReturn ==
    /\ pc = "return"
    /\ op = "read_email"
    /\ ret' = [status |-> "read",
               id |-> email_id,
               subject |-> decode_mime_header(fetched_msg.Subject),
               from |-> decode_mime_header(fetched_msg.From),
               to |-> decode_mime_header(fetched_msg.To),
               date |-> fetched_msg.Date,
               body_text |-> body_text,
               body_html |-> body_html,
               attachments |-> attachments,
               urls |-> extracted_urls,
               truncated |-> truncated,
               untrusted_content |-> TRUE]
    /\ pc' = "imap_logout"
    /\ UNCHANGED <<imapOther, queryVars, detectVars, error, imapState, searchLocals,
                   readLocals, log, disk>>

---------------------------------------------------------------------------
(* read_email called once on a message of the server                       *)

\* a message as email.message_from_bytes presents it
Message(subj, from, rcpt, date, multipart, ctype, payload, parts) ==
    [Subject |-> subj, From |-> from, To |-> rcpt, Date |-> date,
     is_multipart |-> multipart, content_type |-> ctype, payload |-> payload,
     parts |-> parts]

Part(ctype, disposition, fname, payload) ==
    [content_type |-> ctype, content_disposition |-> disposition,
     filename |-> fname, payload |-> payload]

S_date == <<"1"," ","D","e","c">>
S_ignore_system == <<"i","g","n","o","r","e"," ","t","h","e"," ","S","y","s","t","e","m">>
S_html_send == <<"<","b",">","s","e","n","d","_","e","m","a","i","l","<","/","b",">"," ",
                 "h","t","t","p",":","/","/","x">>
S_html_env == <<"<","p",">","a",".","e","n","v","<","/","p",">">>
S_see_url == <<"s","e","e"," ","h","t","t","p",":","/","/","a",".","b">>
S_delete == <<"d","e","l","e","t","e","_","e","m","a","i","l">>

ReadMessages ==
    { Message(SubjectOk, A_X, B_Y, S_date, FALSE, "text/plain", S_ignore_system, <<>>),
      Message(SubjectOk, A_X, B_Y, S_date, FALSE, "text/html", S_html_send, <<>>),
      Message(SubjectOk, A_X, B_Y, S_date, TRUE, "multipart/mixed", <<>>,
              << Part("text/plain", <<>>, <<>>, <<>>),
                 Part("text/html", <<>>, <<>>, S_html_env),
                 Part("application/pdf", S_attachment, <<"f">>, <<"a","b","c">>) >>),
      Message(<<>>, A_X, <<>>, <<>>, TRUE, "multipart/alternative", <<>>,
              << Part("text/plain", <<>>, <<>>, S_see_url),
                 Part("text/plain", <<>>, <<>>, S_ignore_system),
                 Part("image/png", S_attachment, <<>>, <<"a">>) >>),
      Message(S_delete, A_X, B_Y, S_date, FALSE, "text/plain", <<>>, <<>>),
      Message(SubjectOk, A_X, B_Y, S_date, FALSE, "text/plain", <<"o","k">>, <<>>) }

EnvMaxReadBodyChars == {0, 6, 20000}

EnvReadSignalsMax == {0, 1, 10}

\* credentials are set, nothing restricts sending
MailConfig ==
    /\ EMAIL = <<"m","@","y","a",".","r","u">>
    /\ PASSWORD = <<"p","w">>
    /\ SEND_RATE_LIMIT_PER_MINUTE = DEFAULT_SEND_RATE_LIMIT
    /\ ALLOWED_RECIPIENTS = <<>>
    /\ ALLOWED_RECIPIENT_DOMAINS = <<>>

\* an IMAP tool has just been called: everything but pc is as in CallIdle
CallBegun ==
    /\ pc = "imap_enter"
    /\ to = None /\ cc = None /\ bcc = None /\ subject = None /\ body_len = 0
    /\ recipients = None
    /\ error = NoError
    /\ policy_arg = None
    /\ smtp_open = FALSE
    /\ smtp_opened = FALSE
    /\ transmitted = None
    /\ window_before = <<>>
    /\ now_at_call = -1
    /\ calls = 1

InitRead ==
    /\ op = "read_email"
    /\ email_id = 1
    /\ search_limit = 0
    /\ stored \in ReadMessages \cup {NoMessage}
    /\ search_hits = <<>>
    /\ filename = <<>>
    /\ folder_data = <<>>
    /\ mailbox = Mailbox({1}, {}, {})
    /\ mailbox_before = mailbox
    /\ imap_open = FALSE /\ imap_opened = 0
    /\ LocalsUnset
    /\ MAX_READ_BODY_CHARS \in EnvMaxReadBodyChars
    /\ ENABLE_INJECTION_LOGGING \in BOOLEAN
    /\ INJECTION_SIGNALS_MAX \in EnvReadSignalsMax
    /\ DetectIdle
    /\ TruncIdle
    /\ MailConfig
    /\ _send_timestamps = <<>>
    /\ clock = 0
    /\ CallBegun
    /\ admit_log = <<>>
    /\ QueryIdle
    /\ RaceIdle

NextRead ==
    \/ ImapEnter
    \/ ImapLogin
    \/ Select
    \/ ReadFetch
    \/ ReadParse
    \/ ReadTruncate
    \/ ReadDetect
    \/ ReadReturn
    \/ ImapLogout

SpecRead == InitRead /\ [][NextRead]_vars

---------------------------------------------------------------------------
(* search_emails (lines 319-387), for queries in ASCII                     *)

\* seq[start:]
SliceFrom(seq, start) ==
    IF start < 0
    THEN SubSeq(seq, (IF Len(seq) + start < 0 THEN 0 ELSE Len(seq) + start) + 1, Len(seq))
    ELSE SubSeq(seq, (IF start > Len(seq) THEN Len(seq) ELSE start) + 1, Len(seq))

\* list(reversed(seq))
Reversed(seq) == [i \in 1..Len(seq) |-> seq[Len(seq) + 1 - i]]

\* lines 347-361: the criteria, the search, its status test and the split of
\* the answer into message numbers
SearchRun ==
    /\ pc = "search"
    /\ criteria' = build_imap_search_criteria(query)
    /\ \/ ImapFail(ConnectionLost) /\ UNCHANGED ids
       \/ ImapFail(Raised("Exception", "search_failed", None)) /\ UNCHANGED ids
       \/ pc' = "slice" /\ ids' = search_hits /\ UNCHANGED error
    /\ UNCHANGED <<imapOther, query, q_state, detectVars, imapState, ids_pos, emails,
                   readLocals, outVars>>

\* lines 363-366
SearchSlice ==
    /\ pc = "slice"
    /\ ids' = Reversed(IF Len(ids) > search_limit THEN SliceFrom(ids, - search_limit) ELSE ids)
    /\ ids_pos' = 0
    /\ emails' = <<>>
    /\ pc' = "fetch_summary"
    /\ UNCHANGED <<imapOther, queryVars, detectVars, error, imapState, readLocals, outVars>>

\* lines 367-385: one turn of the for loop; a fetch that is not OK is skipped
SearchFetch ==
    /\ pc = "fetch_summary"
    /\ ids_pos < Len(ids)
    /\ ids_pos' = ids_pos + 1
    /\ \/ ImapFail(ConnectionLost) /\ UNCHANGED emails
       \/ UNCHANGED <<pc, error, emails>>
       \/ /\ emails' = Append(emails,
                 [id |-> ids[ids_pos + 1],
                  subject |-> decode_mime_header(stored.Subject),
                  from |-> decode_mime_header(stored.From),
                  date |-> stored.Date])
          /\ UNCHANGED <<pc, error>>
    /\ UNCHANGED <<imapOther, queryVars, detectVars, imapState, ids, readLocals, outVars>>

\* line 387: the return statement, which leaves the with block
SearchReturn ==
    /\ pc = "fetch_summary"
    /\ ids_pos = Len(ids)
    /\ ret' = [status |-> "found", emails |-> emails]
    /\ pc' = "imap_logout"
    /\ UNCHANGED <<imapOther, queryVars, detectVars, error, imapState, searchLocals,
                   readLocals, log, disk>>

---------------------------------------------------------------------------
(* search_emails called once on a folder                                   *)

MaxMessages == 3

\* the members of a set of numbers in ascending order
Ascending(S) ==
    CHOOSE f \in [1..Cardinality(S) -> S] :
        \A i \in 1..Cardinality(S) : \A j \in 1..Cardinality(S) : i < j => f[i] < f[j]

SearchQueries == { S_ALL, <<"F","R","O","M"," ">> \o A_X }

\* the headers every message of the folder carries
SummaryMessage ==
    Message(SubjectOk, A_X, B_Y, S_date, FALSE, "text/plain", <<"o","k">>, <<>>)

InitSearch ==
    /\ op = "search_emails"
    /\ email_id = 0
    /\ search_limit \in -1..(MaxMessages + 1)
    /\ stored = SummaryMessage
    /\ search_hits \in { Ascending(S) : S \in SUBSET (1..MaxMessages) }
    /\ mailbox = Mailbox(1..MaxMessages, {}, {})
    /\ mailbox_before = mailbox
    /\ filename = <<>>
    /\ folder_data = <<>>
    /\ imap_open = FALSE /\ imap_opened = 0
    /\ LocalsUnset
    /\ DefaultReadConfig
    /\ DetectIdle
    /\ TruncIdle
    /\ MailConfig
    /\ _send_timestamps = <<>>
    /\ clock = 0
    /\ CallBegun
    /\ admit_log = <<>>
    /\ query \in SearchQueries
    /\ criteria = <<>>
    /\ q_state = "idle"
    /\ RaceIdle

NextSearch ==
    \/ ImapEnter
    \/ ImapLogin
    \/ Select
    \/ SearchRun
    \/ SearchSlice
    \/ SearchFetch
    \/ SearchReturn
    \/ ImapLogout

SpecSearch == InitSearch /\ [][NextSearch]_vars

---------------------------------------------------------------------------
(* list_folders (lines 250-279) and download_attachment (lines 495-557)    *)

\* the positions of the double quotes of a line
QuotePositions(line) == { k \in 1..Len(line) : line[k] = "\"" }

Largest(S) == CHOOSE k \in S : \A j \in S : j <= k

\* lines 270-272: decoded.rsplit('"', 2)[-2], for a line with a quote in it
FolderName(line) ==
    With(QuotePositions(line), LAMBDA quotes :
        IF Cardinality(quotes) = 1
        THEN SubSeq(line, 1, Largest(quotes) - 1)
        ELSE SubSeq(line, Largest(quotes \ {Largest(quotes)}) + 1, Largest(quotes) - 1))

\* decode_folder_name (lines 242-247) for a name in ASCII without "&":
\* modified UTF-7 leaves it as it is
decode_folder_name(imap_name) == imap_name

\* lines 264-277: the loop over the lines of the answer
RECURSIVE ParseFolders(_, _, _)
ParseFolders(lines, k, folders) ==
    IF k > Len(lines) THEN folders
    ELSE IF QuotePositions(lines[k]) = {}
         THEN ParseFolders(lines, k + 1, folders)
         ELSE ParseFolders(lines, k + 1,
                Append(folders, [name |-> decode_folder_name(FolderName(lines[k])),
                                 imap_name |-> FolderName(lines[k])]))

\* lines 260-279
ListFolders ==
    /\ pc = "list"
    /\ \/ ImapFail(ConnectionLost) /\ UNCHANGED ret
       \/ ImapFail(Raised("Exception", "list_failed", None)) /\ UNCHANGED ret
       \/ /\ ret' = [status |-> "listed", folders |-> ParseFolders(folder_data, 1, <<>>)]
          /\ pc' = "imap_logout"
          /\ UNCHANGED error
    /\ UNCHANGED <<imapOther, queryVars, detectVars, imapState, searchLocals, readLocals,
                   log, disk>>

\* lines 512-518: the save directory is made before the connection is opened
DownloadPrepare ==
    /\ pc = "mkdir"
    /\ \/ pc' = "raised" /\ error' = Raised("OSError", "mkdir_failed", None)
       \/ pc' = "imap_enter" /\ UNCHANGED error
    /\ UNCHANGED <<imapOther, queryVars, detectVars, imapState, searchLocals, readLocals,
                   outVars>>

\* lines 526-531: the fetch, its status test, and msg_data[0][1]
DownloadFetch ==
    /\ pc = "fetch"
    /\ op = "download_attachment"
    /\ \/ ImapFail(ConnectionLost) /\ UNCHANGED fetched_msg
       \/ ImapFail(Raised("Exception", "fetch_failed", None)) /\ UNCHANGED fetched_msg
       \/ /\ stored = NoMessage
          /\ ImapFail(Raised("TypeError", "fetch_empty", None))
          /\ UNCHANGED fetched_msg
       \/ /\ stored # NoMessage
          /\ fetched_msg' = stored
          /\ pc' = "find"
          /\ UNCHANGED error
    /\ UNCHANGED <<imapOther, queryVars, detectVars, imapState, searchLocals,
                   body_text, body_html, attachments, extracted_urls, truncated, outVars>>

\* lines 534-546: the parts the loop stops at: attachments named as asked,
\* with a payload (a message that is not multipart carries none here)
Wanted(m, name) ==
    { k \in 1..Len(m.parts) :
        /\ Contains(m.parts[k].content_disposition, S_attachment)
        /\ m.parts[k].filename # <<>>
        /\ decode_mime_header(m.parts[k].filename) = name
        /\ m.parts[k].payload # <<>> }

\* lines 534-557: the file is written and described, or nothing was found
DownloadFind ==
    /\ pc = "find"
    /\ IF Wanted(fetched_msg, filename) = {}
       THEN ImapFail(Raised("Exception", "attachment_not_found", None))
            /\ UNCHANGED <<ret, disk>>
       ELSE \E k \in { CHOOSE k \in Wanted(fetched_msg, filename) :
                          \A j \in Wanted(fetched_msg, filename) : k <= j } :
              \/ ImapFail(Raised("OSError", "write_failed", None)) /\ UNCHANGED <<ret, disk>>
              \/ /\ disk' = disk \cup { [path |-> filename,
                                         data |-> fetched_msg.parts[k].payload] }
                 /\ ret' = [status |-> "downloaded",
                            filename |-> filename,
                            path |-> filename,
                            size |-> Len(fetched_msg.parts[k].payload),
                            content_type |-> fetched_msg.parts[k].content_type]
                 /\ pc' = "imap_logout"
                 /\ UNCHANGED error
    /\ UNCHANGED <<imapOther, queryVars, detectVars, imapState, searchLocals, readLocals, log>>

---------------------------------------------------------------------------
(* move_email (lines 624-658) and delete_email (lines 661-701)             *)
(* The server answers COPY and STORE of a message it does not hold with NO, *)
(* and may answer any command with NO; EXPUNGE removes every message of the *)
(* selected folder that carries \Deleted.                                   *)

\* the server's state after a successful COPY of message n
Copied(box, n) == [box EXCEPT !.copies = @ \cup {n}]

\* the server's state after a successful STORE +FLAGS \Deleted on message n
Flagged(box, n) == [box EXCEPT !.flagged = @ \cup {n}]

\* the server's state after a successful EXPUNGE
Expunged(box) == [box EXCEPT !.source = @ \ box.flagged, !.flagged = {}]

mutateOther == <<imapOther, queryVars, detectVars, imap_open, imap_opened, searchLocals,
                 readLocals, log, disk>>

\* lines 641-643
MoveCopy ==
    /\ pc = "copy"
    /\ op = "move_email"
    /\ \/ ImapFail(ConnectionLost) /\ UNCHANGED mailbox
       \/ ImapFail(Raised("Exception", "copy_failed", None)) /\ UNCHANGED mailbox
       \/ /\ email_id \in mailbox.source
          /\ mailbox' = Copied(mailbox, email_id)
          /\ pc' = "store"
          /\ UNCHANGED error
    /\ UNCHANGED <<mutateOther, ret>>

\* lines 646-648
MoveStore ==
    /\ pc = "store"
    /\ op = "move_email"
    /\ \/ ImapFail(ConnectionLost) /\ UNCHANGED mailbox
       \/ ImapFail(Raised("Exception", "mark_deleted_failed", None)) /\ UNCHANGED mailbox
       \/ /\ email_id \in mailbox.source
          /\ mailbox' = Flagged(mailbox, email_id)
          /\ pc' = "expunge"
          /\ UNCHANGED error
    /\ UNCHANGED <<mutateOther, ret>>

\* lines 651-658: the answer of expunge is not looked at
MoveExpunge ==
    /\ pc = "expunge"
    /\ op = "move_email"
    /\ \/ ImapFail(ConnectionLost) /\ UNCHANGED <<mailbox, ret>>
       \/ /\ mailbox' \in { mailbox, Expunged(mailbox) }
          /\ ret' = [status |-> "moved", email_id |-> email_id]
          /\ pc' = "imap_logout"
          /\ UNCHANGED error
    /\ UNCHANGED mutateOther

\* lines 680-681
DeleteCopy ==
    /\ pc = "copy"
    /\ op = "delete_email"
    /\ \/ ImapFail(ConnectionLost) /\ UNCHANGED mailbox
       \/ pc' = "store_fallback" /\ UNCHANGED <<mailbox, error>>
       \/ /\ email_id \in mailbox.source
          /\ mailbox' = Copied(mailbox, email_id)
          /\ pc' = "store"
          /\ UNCHANGED error
    /\ UNCHANGED <<mutateOther, ret>>

\* lines 683-685
DeleteStoreFallback ==
    /\ pc = "store_fallback"
    /\ \/ ImapFail(ConnectionLost) /\ UNCHANGED mailbox
       \/ ImapFail(Raised("Exception", "delete_failed", None)) /\ UNCHANGED mailbox
       \/ /\ email_id \in mailbox.source
          /\ mailbox' = Flagged(mailbox, email_id)
          /\ pc' = "expunge_fallback"
          /\ UNCHANGED error
    /\ UNCHANGED <<mutateOther, ret>>

\* lines 686-691: the answer of expunge is not looked at
DeleteExpungeFallback ==
    /\ pc = "expunge_fallback"
    /\ \/ ImapFail(ConnectionLost) /\ UNCHANGED <<mailbox, ret>>
       \/ /\ mailbox' \in { mailbox, Expunged(mailbox) }
          /\ ret' = [status |-> "deleted_permanently", email_id |-> email_id]
          /\ pc' = "imap_logout"
          /\ UNCHANGED error
    /\ UNCHANGED mutateOther

\* line 694: the answer of store is not looked at
DeleteStore ==
    /\ pc = "store"
    /\ op = "delete_email"
    /\ \/ ImapFail(ConnectionLost) /\ UNCHANGED mailbox
       \/ pc' = "expunge" /\ UNCHANGED <<mailbox, error>>
       \/ /\ email_id \in mailbox.source
          /\ mailbox' = Flagged(mailbox, email_id)
          /\ pc' = "expunge"
          /\ UNCHANGED error
    /\ UNCHANGED <<mutateOther, ret>>

\* lines 695-701: the answer of expunge is not looked at
DeleteExpunge ==
    /\ pc = "expunge"
    /\ op = "delete_email"
    /\ \/ ImapFail(ConnectionLost) /\ UNCHANGED <<mailbox, ret>>
       \/ /\ mailbox' \in { mailbox, Expunged(mailbox) }
          /\ ret' = [status |-> "moved_to_trash", email_id |-> email_id]
          /\ pc' = "imap_logout"
          /\ UNCHANGED error
    /\ UNCHANGED mutateOther

---------------------------------------------------------------------------
(* Every tool, called on a small mailbox                                   *)

ImapTools ==
    { "list_folders", "search_emails", "read_email", "download_attachment",
      "move_email", "delete_email" }

\* the message every number of the folder stands for
StoredMessage ==
    Message(SubjectOk, A_X, B_Y, S_date, TRUE, "multipart/mixed", <<>>,
            << Part("text/plain", <<>>, <<>>, <<"o","k">>),
               Part("application/pdf", S_attachment, <<"f">>, <<"a","b","c">>) >>)

FolderLines ==
    << <<"(",")"," ","\"","/","\""," ","\"","I","N","B","O","X","\"">>,
       <<"(",")"," ","\"","/","\""," ","T","r","a","s","h">>,
       <<"*">> >>

\* an IMAP tool is called on a folder of MaxMessages messages, some of them
\* flagged \Deleted, with a message number that may be one too large
InitImapTool ==
    /\ op \in ImapTools
    /\ email_id \in 1..(MaxMessages + 1)
    /\ mailbox \in { Mailbox(1..MaxMessages, F, {}) : F \in SUBSET (1..MaxMessages) }
    /\ stored = IF op \in {"read_email", "download_attachment"} /\ email_id > MaxMessages
                THEN NoMessage
                ELSE StoredMessage
    /\ filename \in { <<"f">>, <<"g">> }
    /\ EMAIL \in EnvEmail
    /\ PASSWORD \in EnvPassword
    /\ pc = IF op = "download_attachment" THEN "mkdir" ELSE "imap_enter"
    /\ calls = 1

\* send_email is about to be called
InitSendTool ==
    /\ op = "send_email"
    /\ email_id = 0
    /\ mailbox = Mailbox(1..MaxMessages, {}, {})
    /\ stored = NoMessage
    /\ filename = <<>>
    /\ EMAIL \in EnvEmail
    /\ PASSWORD \in EnvPassword
    /\ pc = "idle"
    /\ calls = 0

InitTools ==
    /\ InitImapTool \/ InitSendTool
    /\ mailbox_before = mailbox
    /\ search_limit = 2
    /\ search_hits = Ascending(1..MaxMessages)
    /\ folder_data = FolderLines
    /\ imap_open = FALSE /\ imap_opened = 0
    /\ LocalsUnset
    /\ DefaultReadConfig
    /\ DetectIdle
    /\ TruncIdle
    /\ SEND_RATE_LIMIT_PER_MINUTE = DEFAULT_SEND_RATE_LIMIT
    /\ ALLOWED_RECIPIENTS = <<>>
    /\ ALLOWED_RECIPIENT_DOMAINS = <<>>
    /\ _send_timestamps = <<>>
    /\ clock = 0
    /\ to = None /\ cc = None /\ bcc = None /\ subject = None /\ body_len = 0
    /\ recipients = None
    /\ error = NoError
    /\ policy_arg = None
    /\ smtp_open = FALSE
    /\ smtp_opened = FALSE
    /\ transmitted = None
    /\ window_before = <<>>
    /\ now_at_call = -1
    /\ admit_log = <<>>
    /\ query = S_ALL
    /\ criteria = <<>>
    /\ q_state = "idle"
    /\ RaceIdle

\* the steps of send_email, when send_email is the tool called
SendTool == op = "send_email" /\ NextSend

NextTools ==
    \/ SendTool
    \/ DownloadPrepare
    \/ ImapEnter
    \/ ImapLogin
    \/ Select
    \/ ListFolders
    \/ SearchRun
    \/ SearchSlice
    \/ SearchFetch
    \/ SearchReturn
    \/ ReadFetch
    \/ ReadParse
    \/ ReadTruncate
    \/ ReadDetect
    \/ ReadReturn
    \/ DownloadFetch
    \/ DownloadFind
    \/ MoveCopy
    \/ MoveStore
    \/ MoveExpunge
    \/ DeleteCopy
    \/ DeleteStoreFallback
    \/ DeleteExpungeFallback
    \/ DeleteStore
    \/ DeleteExpunge
    \/ ImapLogout

SpecTools == InitTools /\ [][NextTools]_vars

\* where the call is: every step of a tool moves it, the passing of time does not
position == <<pc, calls, ids_pos, imap_open, smtp_open>>

\* a tool that has begun a step carries it out: no command blocks for ever
SpecToolsLive == SpecTools /\ WF_position(NextTools)

---------------------------------------------------------------------------
(* Properties of send_email, checked under SpecSend                        *)

\* local@domain.tld: one "@" with something before it, a "." inside what
\* follows with something on both sides, and no white space anywhere
HasAddressShape(a) ==
    LET ats == { i \in 1..Len(a) : a[i] = "@" }
    IN  /\ Cardinality(ats) = 1
        /\ \A i \in ats :
             /\ i > 1
             /\ \E k \in (i + 1)..Len(a) : a[k] = "." /\ k > i + 1 /\ k < Len(a)
        /\ ~ \E i \in 1..Len(a) : a[i] \in Whitespace

RejectedByValidationOrPolicy ==
    /\ pc = "raised"
    /\ error.msg \in {"crlf", "no_recipients", "invalid_recipient", "not_allowed"}

\* the call of the end-to-end scenario: to = "a@x.com, b@y.com", only x.com allowed
ScenarioCall ==
    /\ to = A_X \o <<",", " ">> \o B_Y /\ cc = None /\ bcc = None
    /\ _split_csv(ALLOWED_RECIPIENTS) = {}
    /\ _split_csv(ALLOWED_RECIPIENT_DOMAINS) = { <<"x",".","c","o","m">> }

\* C2: a send_email call that fails with a validation error (CR/LF, empty or
\* malformed recipients) or a policy error (recipient not allowed) has opened
\* no SMTP connection and transmitted nothing; the call to "a@x.com, b@y.com"
\* with only x.com allowed never returns, transmits nothing, and its policy
\* error cites b@y.com.
C2_NoTransmissionOnRejection ==
    /\ RejectedByValidationOrPolicy =>
         (~ smtp_opened /\ ~ smtp_open /\ transmitted = None)
    /\ ScenarioCall =>
         /\ pc # "returned"
         /\ transmitted = None
         /\ (pc = "raised" /\ error.msg = "not_allowed") => (error.arg = B_Y /\ ~ smtp_opened)

\* the scenario call was rejected by the policy, citing b@y.com
C2_Witness ==
    /\ ScenarioCall
    /\ pc = "raised"
    /\ error = Raised("PermissionError", "not_allowed", B_Y)
    /\ ~ smtp_opened

\* C3: a send_email call rejected for invalid or disallowed recipients leaves
\* the rate window as it was when the call began (it consumed no send slot).
C3_RejectionLeavesWindow ==
    (/\ pc = "raised"
     /\ error.msg \in {"no_recipients", "invalid_recipient", "not_allowed"})
        => _send_timestamps = window_before

\* C6: whenever the allowlist check has been evaluated, recipient validation
\* had succeeded on the same input, and every address it was given has the
\* local@domain.tld shape.
C6_PolicyAfterValidation ==
    policy_arg # None =>
        /\ recipients # None
        /\ policy_arg = recipients
        /\ Len(policy_arg) > 0
        /\ \A i \in 1..Len(policy_arg) : HasAddressShape(policy_arg[i])

\* the policy has been evaluated on a validated list of two recipients
C6_Witness ==
    /\ policy_arg # None
    /\ Len(policy_arg) = 2
    /\ pc = "smtp_connect"

---------------------------------------------------------------------------
(* Properties of the rate limiter                                          *)

\* the timestamps of a window that are within the trailing 60 seconds of now
LiveCount(window, now) ==
    Cardinality({ i \in 1..Len(window) : window[i] > now - WINDOW_SECONDS })

\* C1: under any interleaving of concurrent callers, with a positive cap the
\* window never holds more live timestamps than the cap (two callers are
\* never both admitted into one free slot).
C1_WindowWithinCap ==
    SEND_RATE_LIMIT_PER_MINUTE > 0 =>
        LiveCount(_send_timestamps, clock) <= SEND_RATE_LIMIT_PER_MINUTE

\* the first cap+1 calls all came within 60 seconds of the first one
BurstOfCapPlusOne ==
    /\ SEND_RATE_LIMIT_PER_MINUTE > 0
    /\ Len(admit_log) >= SEND_RATE_LIMIT_PER_MINUTE + 1
    /\ admit_log[SEND_RATE_LIMIT_PER_MINUTE + 1].t - admit_log[1].t < WINDOW_SECONDS

\* the first cap calls are admitted and call cap+1 is refused
BurstOutcome ==
    /\ \A i \in 1..SEND_RATE_LIMIT_PER_MINUTE : admit_log[i].ok
    /\ ~ admit_log[SEND_RATE_LIMIT_PER_MINUTE + 1].ok

\* call k is the first call after the burst that comes at least wait seconds
\* after the first admitted call
NextCallAfter(k, wait) ==
    /\ k > SEND_RATE_LIMIT_PER_MINUTE + 1
    /\ admit_log[k].t >= admit_log[1].t + wait
    /\ \A j \in (SEND_RATE_LIMIT_PER_MINUTE + 2)..(k - 1) :
         admit_log[j].t < admit_log[1].t + wait

StrictlyNewer(window, now) ==
    SelectSeq(window, LAMBDA ts : ts > now - WINDOW_SECONDS)

\* the timestamps of window that are not older than now - 60
NotOlder(window, now) ==
    SelectSeq(window, LAMBDA ts : ts >= now - WINDOW_SECONDS)

---------------------------------------------------------------------------
(* Properties of the allowlist policy, checked under SpecPolicy            *)

\* the part of an address after its first "@"
DomainPart(a) ==
    CHOOSE d \in { SubSeq(a, k + 1, Len(a)) : k \in 1..Len(a) } :
        \E k \in 1..Len(a) :
            /\ d = SubSeq(a, k + 1, Len(a))
            /\ a[k] = "@"
            /\ ~ \E j \in 1..(k - 1) : a[j] = "@"

\* the positions of the recipients outside both allow-sets
Offending ==
    { i \in 1..Len(recipients) :
        /\ str_lower(recipients[i]) \notin _split_csv(ALLOWED_RECIPIENTS)
        /\ str_lower(DomainPart(recipients[i])) \notin _split_csv(ALLOWED_RECIPIENT_DOMAINS) }

\* C7: with both allow-sets empty enforce never fails; otherwise it fails if
\* and only if some recipient has its lower-cased address outside the allowed
\* addresses and its lower-cased domain outside the allowed domains, and the
\* error names the first such recipient in input order.
C7_EnforceIffOffending ==
    pc \in {"returned", "raised"} =>
        /\ (_split_csv(ALLOWED_RECIPIENTS) = {} /\ _split_csv(ALLOWED_RECIPIENT_DOMAINS) = {})
              => pc = "returned"
        /\ ~ (_split_csv(ALLOWED_RECIPIENTS) = {} /\ _split_csv(ALLOWED_RECIPIENT_DOMAINS) = {})
              => (pc = "raised" <=> Offending # {})
        /\ pc = "raised" =>
              /\ error.exc = "PermissionError"
              /\ \E i \in Offending :
                   /\ \A j \in Offending : i <= j
                   /\ error.arg = recipients[i]

\* a list whose first recipient is allowed was rejected because of its second
C7_Witness ==
    /\ pc = "raised"
    /\ Len(recipients) = 2
    /\ Offending = {2}
    /\ error.arg = recipients[2]
    /\ recipients[1] # recipients[2]

---------------------------------------------------------------------------
(* Properties of recipient validation, checked under SpecParse             *)

\* what stands between the commas of to, then cc, then bcc, with blanks
\* removed and empty pieces dropped
WrittenAddresses ==
    LET pieces(f) == IF f = None THEN <<>> ELSE SplitComma(f, 1, <<>>)
        all == pieces(to) \o pieces(cc) \o pieces(bcc)
        bare == [i \in 1..Len(all) |-> SelectSeq(all[i], LAMBDA ch : ch \notin Whitespace)]
    IN  SelectSeq(bare, LAMBDA a : a # <<>>)

\* no "@" in a, or no "." in what follows the "@"
LacksAtOrDomainDot(a) ==
    \/ ~ \E i \in 1..Len(a) : a[i] = "@"
    \/ ~ \E i \in 1..Len(a) : a[i] = "@" /\ \E k \in (i + 1)..Len(a) : a[k] = "."

\* C8: validation fails with a validation error whenever to, cc or bcc holds
\* a CR or LF, whenever the parsed address list is empty, and whenever a
\* parsed address lacks an "@" or a dot in its domain; when it succeeds the
\* list returned is not empty, every member has the local@domain.tld shape,
\* and the members come in the order written in to, cc, bcc.
C8_ValidateAndParse ==
    pc \in {"returned", "raised"} =>
        /\ (\E f \in {to, cc, bcc} : f # None /\ HasCRLF(f))
              => (pc = "raised" /\ error.exc = "ValueError" /\ error.msg = "crlf")
        /\ (~ \E f \in {to, cc, bcc} : f # None /\ HasCRLF(f)) =>
              /\ ParsedAddresses(to, cc, bcc) = <<>>
                    => (pc = "raised" /\ error.exc = "ValueError")
              /\ (\E a \in Range(ParsedAddresses(to, cc, bcc)) : LacksAtOrDomainDot(a))
                    => (pc = "raised" /\ error.exc = "ValueError")
        /\ pc = "returned" =>
              /\ Len(recipients) > 0
              /\ \A a \in Range(recipients) : HasAddressShape(a)
              /\ recipients = WrittenAddresses

\* a call with addresses in to, cc and bcc returned them in that order
C8_Witness ==
    /\ pc = "returned"
    /\ to = B_Y \o <<",", " ">> \o A_X
    /\ cc = A_X
    /\ bcc = B_Y
    /\ recipients = <<B_Y, A_X, A_X, B_Y>>

---------------------------------------------------------------------------
(* Properties of the query translator, checked under SpecQuery             *)

IsBlank(q) == \A i \in 1..Len(q) : q[i] \in Whitespace

\* C9: the translator returns [ALL] if and only if the query is empty,
\* whitespace-only, or case-insensitively equal to "ALL".
C9_AllIffBlankOrAll ==
    q_state = "done" =>
        (criteria = <<S_ALL>> <=> (IsBlank(query) \/ str_upper(query) = S_ALL))

IsKeyword(token) == str_upper(token) \in keywords_needing_quotes

\* token i is the operand of the keyword before it
RECURSIVE IsOperand(_, _)
IsOperand(tokens, i) ==
    i > 1 /\ IsKeyword(tokens[i - 1]) /\ ~ IsOperand(tokens, i - 1)

\* out is value with its surrounding quotes removed, in one pair of double quotes
QuotedOnce(out, value) ==
    /\ Len(out) >= 2 /\ out[1] = "\"" /\ out[Len(out)] = "\""
    /\ \E lead \in 0..Len(value) : \E trail \in 0..(Len(value) - lead) :
         /\ \A i \in 1..lead : value[i] \in QuoteChars
         /\ \A i \in (Len(value) - trail + 1)..Len(value) : value[i] \in QuoteChars
         /\ SubSeq(out, 2, Len(out) - 1) = SubSeq(value, lead + 1, Len(value) - trail)
         /\ (lead + trail < Len(value) =>
               value[lead + 1] \notin QuoteChars /\ value[Len(value) - trail] \notin QuoteChars)

\* the output follows the tokens one for one: operands quoted once, keywords
\* that take an operand upper-cased, every other token unchanged
WalksTokens(tokens, out) ==
    /\ Len(out) = Len(tokens)
    /\ \A i \in 1..Len(tokens) :
         IF IsOperand(tokens, i) THEN QuotedOnce(out[i], tokens[i])
         ELSE IF IsKeyword(tokens[i]) /\ i < Len(tokens) THEN out[i] = str_upper(tokens[i])
         ELSE out[i] = tokens[i]

\* C10 as stated: for every query the output is the left-to-right walk of its
\* whitespace-separated tokens.
C10_EveryQueryWalked ==
    q_state = "done" => WalksTokens(str_split(query), criteria)

\* C10 amended: for every query that is neither empty nor case-insensitively
\* equal to "ALL", the output is the left-to-right walk of its
\* whitespace-separated tokens.
C10_WalkedUnlessAll ==
    (q_state = "done" /\ Len(query) > 0 /\ str_upper(query) # S_ALL)
        => WalksTokens(str_split(query), criteria)

\* a query with two operators, one operand quoted by the caller and a
\* trailing keyword has been translated
C10_Witness ==
    /\ q_state = "done"
    /\ str_split(query) = << <<"F","R","O","M">>, <<"'","a","\"","b","'">>, <<"t","o">> >>
    /\ criteria = << <<"F","R","O","M">>, <<"\"","a","\"","b","\"">>, <<"t","o">> >>

---------------------------------------------------------------------------
(* Properties of _truncate, checked under SpecTruncate                     *)

\* out is the first n characters of t followed by the truncation marker
CutAndMarked(out, t, n) ==
    /\ Len(out) = n + Len(TRUNCATION_MARKER)
    /\ \A i \in 1..n : out[i] = t[i]
    /\ \A i \in 1..Len(TRUNCATION_MARKER) : out[n + i] = TRUNCATION_MARKER[i]

\* C11: with a limit of zero or less truncate returns the empty string and
\* the flag "text is non-empty"; a text no longer than the limit is returned
\* unchanged with the flag false, and truncating that result again changes
\* nothing; a longer text is cut to its first limit characters followed by
\* the truncation marker, with the flag true.
C11_TruncateCases ==
    /\ truncate_ret # NotTruncated =>
          /\ max_chars <= 0 =>
                truncate_ret = [out |-> <<>>, flag |-> Len(text) > 0]
          /\ Len(text) <= max_chars =>
                truncate_ret = [out |-> text, flag |-> FALSE]
          /\ (max_chars > 0 /\ Len(text) > max_chars) =>
                /\ CutAndMarked(truncate_ret.out, text, max_chars)
                /\ truncate_ret.flag = TRUE
    /\ (truncate_again # NotTruncated /\ Len(text) <= max_chars) =>
          truncate_again = truncate_ret

\* a text of three characters was cut at two, and the result truncated again
C11_Witness ==
    /\ truncate_again # NotTruncated
    /\ max_chars = 2
    /\ Len(text) = 3
    /\ truncate_ret.flag

---------------------------------------------------------------------------
(* Properties of the detector, checked under SpecDetect                    *)

\* the position of a name in the catalog, 0 if it is not in it
CatalogIndex(name) ==
    IF \E k \in 1..Len(_INJECTION_PATTERNS) : _INJECTION_PATTERNS[k] = name
    THEN CHOOSE k \in 1..Len(_INJECTION_PATTERNS) : _INJECTION_PATTERNS[k] = name
    ELSE 0

\* C12: detect returns catalog pattern names without duplicates, in catalog
\* order, only of patterns that match the joined non-empty inputs, never more
\* than the configured maximum; empty input gives an empty result.
C12_SignalsBounded ==
    signals # None =>
        /\ \A i \in 1..Len(signals) :
             /\ CatalogIndex(signals[i]) > 0
             /\ PatternSearch(CatalogIndex(signals[i]), JoinedTexts(texts))
             /\ \A j \in (i + 1)..Len(signals) :
                  CatalogIndex(signals[i]) < CatalogIndex(signals[j])
        /\ Len(signals) <= INJECTION_SIGNALS_MAX
        /\ (\A i \in 1..Len(texts) : texts[i] = <<>>) => signals = <<>>

---------------------------------------------------------------------------
(* Properties of read_email, checked under SpecRead                        *)

\* the bodies of message m as to be returned under the limit max: the first
\* text/plain and text/html parts outside attachments (the text derived from
\* the HTML when there is no plain text), each truncated
BodiesReturned(m, max) ==
    LET b == ExtractBodies(m)
        plain == IF b.body_text = <<>> /\ b.body_html # <<>>
                 THEN _html_to_text(b.body_html) ELSE b.body_text
    IN  [text |-> _truncate(plain, max), html |-> _truncate(b.body_html, max),
         attachments |-> b.attachments]

\* the payload of a read, written from the message, the email_id and the
\* body limit alone
PayloadOf(m, id, max) ==
    [status |-> "read", id |-> id,
     subject |-> m.Subject, from |-> m.From, to |-> m.To, date |-> m.Date,
     body_text |-> BodiesReturned(m, max).text.out,
     body_html |-> BodiesReturned(m, max).html.out,
     attachments |-> BodiesReturned(m, max).attachments,
     urls |-> _extract_urls(BodiesReturned(m, max).text.out),
     truncated |-> (BodiesReturned(m, max).text.flag \/ BodiesReturned(m, max).html.flag),
     untrusted_content |-> TRUE]

\* C13: for the same fetched message read_email returns the same payload and
\* never raises because of detection, whether injection logging is on or off
\* and whether or not a signal matched: once the message is fetched the call
\* returns, what it returns depends on the message, the email_id and the body
\* limit only, and detection leaves nothing but a log entry.
C13_DetectionOnlyLogs ==
    /\ fetched_msg # NoMessage => (pc # "raised" /\ error = NoError)
    /\ pc = "returned" =>
          /\ ret = PayloadOf(stored, email_id, MAX_READ_BODY_CHARS)
          /\ log # <<>> <=> (ENABLE_INJECTION_LOGGING /\ signals # None /\ signals # <<>>)
          /\ ~ ENABLE_INJECTION_LOGGING => signals = None

\* a read with logging enabled matched a signal, logged it, and returned
C13_Witness ==
    /\ pc = "returned"
    /\ ENABLE_INJECTION_LOGGING
    /\ signals # None
    /\ Len(signals) > 0
    /\ Len(log) = 1
    /\ ret.body_text # <<>>

---------------------------------------------------------------------------
(* Properties of search_emails, checked under SpecSearch                   *)

\* the n most recent of the hits, most recent first
MostRecent(hits, n) ==
    [i \in 1..(IF n < 0 THEN 0 ELSE IF n > Len(hits) THEN Len(hits) ELSE n)
        |-> hits[Len(hits) + 1 - i]]

\* short is long with some members left out
IsSubsequence(short, long) ==
    \E pick \in [1..Len(short) -> 1..Len(long)] :
        /\ \A i \in 1..Len(short) : short[i] = long[pick[i]]
        /\ \A i \in 1..Len(short) : \A j \in 1..Len(short) : i < j => pick[i] < pick[j]

\* C14: search_emails returns at most limit summaries, and those returned
\* are the most recent matching messages, most recent first.
C14_AtMostLimitMostRecent ==
    (pc = "returned" /\ op = "search_emails") =>
        /\ Len(ret.emails) <= search_limit
        /\ IsSubsequence([i \in 1..Len(ret.emails) |-> ret.emails[i].id],
                         MostRecent(search_hits, search_limit))

---------------------------------------------------------------------------
(* Properties of the connections, checked under SpecToolsLive              *)

\* no call is in progress: none was made yet, or the last one returned or raised
Exited == pc \in {"idle", "returned", "raised"}

\* C15: every IMAP or SMTP connection a tool opens is released, by logout or
\* quit, on every way out of the tool: whenever a connection is open it is
\* later closed, and no tool has returned or raised with a connection open
C15_ConnectionsReleased ==
    /\ [](Exited => ~imap_open /\ ~smtp_open)
    /\ imap_open ~> ~imap_open
    /\ smtp_open ~> ~smtp_open

\* a tool lost its connection after login and left with the exception, the
\* connection it had opened being released
C15_Witness ==
    /\ pc = "raised"
    /\ error = ConnectionLost
    /\ imap_opened = 1
    /\ ~imap_open

---------------------------------------------------------------------------
(* Properties of move_email and delete_email, checked under SpecTools      *)

\* the call of a tool that changes the mailbox is over
Moved == op = "move_email" /\ pc \in {"returned", "raised"}

Deleted == op = "delete_email" /\ pc \in {"returned", "raised"}

\* the message asked for is in Trash, and no longer in the source folder
InTrashOnly == email_id \in mailbox.copies /\ email_id \notin mailbox.source

\* the message asked for is in neither folder
GoneForGood == email_id \notin mailbox.copies /\ email_id \notin mailbox.source

\* C16: delete_email reports moved_to_trash only when the message was copied
\* to Trash and expunged from the source folder, deleted_permanently only
\* when the copy failed and the message was expunged, and when it raises
\* the message is still in the source folder
C16_StatusMatchesEffect ==
    Deleted =>
        /\ (pc = "returned" /\ ret.status = "moved_to_trash") => InTrashOnly
        /\ (pc = "returned" /\ ret.status = "deleted_permanently") => GoneForGood
        /\ (pc = "raised" /\ email_id \in mailbox_before.source)
               => email_id \in mailbox.source

\* C17: after move_email or delete_email every message of the source folder
\* other than the one asked for is still there, those that carried \Deleted
\* before the call included, and the one asked for is gone only if it was
\* copied, or, on delete's fallback path, flagged
C17_OnlyTheIdentifiedRemoved ==
    (Moved \/ Deleted) =>
        /\ mailbox_before.source \ {email_id} \subseteq mailbox.source
        /\ (email_id \in mailbox_before.source /\ email_id \notin mailbox.source)
               => \/ email_id \in mailbox.copies
                  \/ ret.status = "deleted_permanently"

====
